---- MODULE Spec2Model ----
(***************************************************************************)
(* State-machine model of the interactive flows of snap (save, branch,     *)
(* replay, sync, stack, tags, tag-diff, tag-create).  Each flow is a       *)
(* bubbletea model: Init() returns the first command, Update(msg) is the   *)
(* transition function, and the commands it returns run as goroutines      *)
(* whose result comes back as a message.                                   *)
(*                                                                         *)
(* Strings are sequences of one-character strings, so that TrimSpace,      *)
(* ToLower, Contains and Split are computed as the Go library computes     *)
(* them.  Command outputs are sequences of words.  The spinner tick and    *)
(* the text-input blink are repaint timers and carry no session data; they *)
(* are not modelled as effects.                                            *)
(***************************************************************************)
EXTENDS Integers, Sequences, FiniteSets, TLC

VARIABLES
    flow,        \* which command main() dispatched to
    srcVersion,  \* which revision of the model file is compiled in
    m,           \* the bubbletea model value (the session)
    inflight,    \* commands started and not yet completed, in start order
    pc,          \* "running" | "quit" | "exited" | "panic"
    exitCode,    \* process exit status, -1 while the process is alive
    lastEvent,   \* the message handed to the last Update call
    lastCmd,     \* the commands returned by the last Update call
    lastCalls,   \* the external operations the last Update call ran itself
    repoBranch,  \* the branch checked out in the repository
    localTag     \* whether the tag of the tag-create flow exists in the repository

vars == <<flow, srcVersion, m, inflight, pc, exitCode, lastEvent, lastCmd, lastCalls,
          repoBranch, localTag>>

----------------------------------------------------------------------------
(* Bounds *)

MaxText == 2        \* longest text typed into a text input
MaxInflight == 2    \* most commands the model lets run at the same time

----------------------------------------------------------------------------
(* Go values *)

nil == "nil"
ErrEffect == "exit status 1"

NoCmd == <<>>
Cmd(kind, arg) == <<[kind |-> kind, arg |-> arg]>>

Result(mm, cmd, quit) ==
    [m |-> mm, cmd |-> cmd, quit |-> quit, panic |-> FALSE, calls |-> <<>>]

\* an Update that called the external operations `calls` before returning
ResultCalling(mm, cmd, quit, calls) ==
    [m |-> mm, cmd |-> cmd, quit |-> quit, panic |-> FALSE, calls |-> calls]

\* a Go run-time panic inside Update (index out of range)
Panic(mm) == [m |-> mm, cmd |-> NoCmd, quit |-> FALSE, panic |-> TRUE, calls |-> <<>>]

----------------------------------------------------------------------------
(* strings *)

UpperToLower == [Y |-> "y", N |-> "n", E |-> "e", G |-> "g"]

ToLowerRune(c) == IF c \in DOMAIN UpperToLower THEN UpperToLower[c] ELSE c

ToLower(s) == [i \in 1..Len(s) |-> ToLowerRune(s[i])]

\* mutant: the whole text is compared with the searched text
ContainsWhole(s, sub) == s = sub

Contains(s, sub) ==
    \E i \in 0..(Len(s) - Len(sub)) : SubSeq(s, i + 1, i + Len(sub)) = sub

RECURSIVE TrimLeft(_)
TrimLeft(s) == IF s # <<>> /\ Head(s) = " " THEN TrimLeft(Tail(s)) ELSE s

RECURSIVE TrimRight(_)
TrimRight(s) ==
    IF s # <<>> /\ s[Len(s)] = " " THEN TrimRight(SubSeq(s, 1, Len(s) - 1)) ELSE s

\* mutant: leading and trailing spaces are kept
TrimSpaceKeepsSpaces(s) == s

TrimSpace(s) == TrimRight(TrimLeft(s))

\* strings.Split(s, sep) for a one-character separator
RECURSIVE Split(_, _)
Split(s, sep) ==
    IF \E i \in 1..Len(s) : s[i] = sep
    THEN LET i == CHOOSE j \in 1..Len(s) : s[j] = sep /\ \A k \in 1..(j - 1) : s[k] # sep
         IN  <<SubSeq(s, 1, i - 1)>> \o Split(SubSeq(s, i + 1, Len(s)), sep)
    ELSE <<s>>

----------------------------------------------------------------------------
(* Keys.  Runes are the keys that a focused text input inserts.            *)

Runes == {"q", "y", "Y", "n", "N", "e", "E", "k", "j", "g", "G", "c", "d",
          "?", "/", " ", ":"}

\* the runes the user types while a text input has the focus
TypedRunes == {"N", "d", " "}

ControlKeys == {"ctrl+c", "enter", "esc", "up", "down", "backspace"}

Keys == Runes \cup ControlKeys

\* textinput.Model.Update for a key message: insert a rune at the end,
\* delete the last rune on backspace, ignore the other keys.
TextInputUpdate(value, key) ==
    IF key \in Runes THEN value \o <<key>>
    ELSE IF key = "backspace" /\ value # <<>> THEN SubSeq(value, 1, Len(value) - 1)
    ELSE value

KeyEvent(key) == [type |-> "key", key |-> key, msg |-> [kind |-> "none"]]
MsgEvent(msg) == [type |-> "msg", key |-> "", msg |-> msg]
InitEvent == [type |-> "init", key |-> "", msg |-> [kind |-> "none"]]

----------------------------------------------------------------------------
(* save flow *)

CustomMessages == {<<>>, <<" ">>, <<"d", ":", "y">>}
Diffs == {<<>>, <<" ">>, <<"d">>}
GenMessages == {<<>>, <<" ">>, <<"d">>, <<":", "d">>, <<" ", "d", ":", "y">>}

SaveVersions == {"model.go", "part_001"}

initialModel ==
    [state |-> "Checking", err |-> nil, diff |-> <<>>, commitMessage |-> <<>>,
     originalMsg |-> <<>>, textInput |-> <<>>, ollamaRunning |-> FALSE,
     stagedChanges |-> FALSE, generatedMsg |-> FALSE, useCustomMsg |-> FALSE]

initialModelWithMessage(customMessage) ==
    IF customMessage # <<>>
    THEN [initialModel EXCEPT !.state = "Staging", !.commitMessage = customMessage,
                              !.useCustomMsg = TRUE]
    ELSE initialModel

\* mutant: the Ollama check is always the first effect
modelInitAlwaysChecks(mm) == Cmd("checkOllama", <<>>)

modelInit(mm) ==
    IF mm.useCustomMsg THEN Cmd("stageChanges", <<>>) ELSE Cmd("checkOllama", <<>>)

\* mutant: cancel-edit keeps the edited text instead of restoring the message
modelUpdateKeyEditingKeepsText(mm, key) ==
    IF key \in {"ctrl+c", "q"}
    THEN Result([mm EXCEPT !.commitMessage = mm.textInput, !.state = "Confirming"],
                NoCmd, FALSE)
    ELSE IF key = "enter"
    THEN LET msg == mm.textInput IN
         IF TrimSpace(msg) = <<>>
         THEN Result([mm EXCEPT !.commitMessage = msg, !.state = "Error",
                                !.err = "commit message cannot be empty"], NoCmd, TRUE)
         ELSE Result([mm EXCEPT !.commitMessage = msg, !.state = "Committing"],
                     Cmd("commitChanges", msg), FALSE)
    ELSE Result([mm EXCEPT !.textInput = TextInputUpdate(mm.textInput, key)], NoCmd, FALSE)

\* mutant: every typed key also updates the message to commit
modelUpdateKeyEditingLiveMessage(mm, key) ==
    IF key \in {"ctrl+c", "q"}
    THEN Result([mm EXCEPT !.commitMessage = mm.originalMsg, !.state = "Confirming"],
                NoCmd, FALSE)
    ELSE IF key = "enter"
    THEN LET msg == mm.textInput IN
         IF TrimSpace(msg) = <<>>
         THEN Result([mm EXCEPT !.commitMessage = msg, !.state = "Error",
                                !.err = "commit message cannot be empty"], NoCmd, TRUE)
         ELSE Result([mm EXCEPT !.commitMessage = msg, !.state = "Committing"],
                     Cmd("commitChanges", msg), FALSE)
    ELSE Result([mm EXCEPT !.textInput = TextInputUpdate(mm.textInput, key),
                           !.commitMessage = TextInputUpdate(mm.textInput, key)],
                NoCmd, FALSE)

modelUpdateKeyEditing(mm, key) ==
    IF key \in {"ctrl+c", "q"}
    THEN Result([mm EXCEPT !.commitMessage = mm.originalMsg, !.state = "Confirming"],
                NoCmd, FALSE)
    ELSE IF key = "enter"
    THEN LET msg == mm.textInput IN
         IF TrimSpace(msg) = <<>>
         THEN Result([mm EXCEPT !.commitMessage = msg, !.state = "Error",
                                !.err = "commit message cannot be empty"], NoCmd, TRUE)
         ELSE Result([mm EXCEPT !.commitMessage = msg, !.state = "Committing"],
                     Cmd("commitChanges", msg), FALSE)
    ELSE Result([mm EXCEPT !.textInput = TextInputUpdate(mm.textInput, key)], NoCmd, FALSE)

modelUpdateKeyQuit(mm) ==
    IF mm.state # "Confirming"
    THEN Result(mm, NoCmd, TRUE)
    ELSE Result([mm EXCEPT !.state = "Done", !.err = "commit cancelled"], NoCmd, TRUE)

\* mutant: accept commits the restore slot instead of the current message
modelUpdateKeyAcceptOriginal(mm) ==
    IF mm.state = "Confirming"
    THEN Result([mm EXCEPT !.state = "Committing"],
                Cmd("commitChanges", mm.originalMsg), FALSE)
    ELSE Result(mm, NoCmd, FALSE)

modelUpdateKeyAccept(mm) ==
    IF mm.state = "Confirming"
    THEN Result([mm EXCEPT !.state = "Committing"],
                Cmd("commitChanges", mm.commitMessage), FALSE)
    ELSE Result(mm, NoCmd, FALSE)

\* mutant: declining sets the error but stays in Confirming
modelUpdateKeyDeclineKeepsState(mm) ==
    IF mm.state = "Confirming"
    THEN Result([mm EXCEPT !.err = "commit cancelled"], NoCmd, TRUE)
    ELSE Result(mm, NoCmd, FALSE)

modelUpdateKeyDecline(mm) ==
    IF mm.state = "Confirming"
    THEN Result([mm EXCEPT !.state = "Done", !.err = "commit cancelled"], NoCmd, TRUE)
    ELSE Result(mm, NoCmd, FALSE)

\* mutant: 'e' opens the editor in every state
modelUpdateKeyEditAnyState(mm) ==
    Result([mm EXCEPT !.originalMsg = mm.commitMessage,
                      !.textInput = mm.commitMessage,
                      !.state = "Editing"], NoCmd, FALSE)

modelUpdateKeyEdit(mm) ==
    IF mm.state = "Confirming"
    THEN Result([mm EXCEPT !.originalMsg = mm.commitMessage,
                           !.textInput = mm.commitMessage,
                           !.state = "Editing"], NoCmd, FALSE)
    ELSE Result(mm, NoCmd, FALSE)

\* mutant: only the lower-case 'e' opens the editor
modelUpdateKeyLowerCaseEdit(mm, key) ==
    IF mm.state = "Editing" THEN modelUpdateKeyEditing(mm, key)
    ELSE IF key \in {"ctrl+c", "q"} THEN modelUpdateKeyQuit(mm)
    ELSE IF key \in {"y", "Y"} THEN modelUpdateKeyAccept(mm)
    ELSE IF key \in {"n", "N"} THEN modelUpdateKeyDecline(mm)
    ELSE IF key = "e" THEN modelUpdateKeyEdit(mm)
    ELSE Result(mm, NoCmd, FALSE)

modelUpdateKey(mm, key) ==
    IF mm.state = "Editing" THEN modelUpdateKeyEditing(mm, key)
    ELSE IF key \in {"ctrl+c", "q"} THEN modelUpdateKeyQuit(mm)
    ELSE IF key \in {"y", "Y"} THEN modelUpdateKeyAccept(mm)
    ELSE IF key \in {"n", "N"} THEN modelUpdateKeyDecline(mm)
    ELSE IF key \in {"e", "E"} THEN modelUpdateKeyEdit(mm)
    ELSE Result(mm, NoCmd, FALSE)

\* mutant: staging starts whatever the check reports
modelUpdateCheckOllamaIgnoresResult(mm, msg) ==
    Result([mm EXCEPT !.ollamaRunning = msg.running, !.state = "Staging"],
           Cmd("stageChanges", <<>>), FALSE)

modelUpdateCheckOllama(mm, msg) ==
    IF ~msg.running
    THEN Result([mm EXCEPT !.state = "Error",
                           !.err = "Ollama is not running. Please start Ollama first"],
                NoCmd, TRUE)
    ELSE Result([mm EXCEPT !.ollamaRunning = TRUE, !.state = "Staging"],
                Cmd("stageChanges", <<>>), FALSE)

\* mutant: a failed staging is ignored
modelUpdateStageChangesIgnoresError(mm, msg) ==
    IF msg.err # nil
    THEN Result([mm EXCEPT !.state = "GettingDiff"], Cmd("getDiff", <<>>), FALSE)
    ELSE Result([mm EXCEPT !.stagedChanges = TRUE, !.state = "GettingDiff"],
                Cmd("getDiff", <<>>), FALSE)

modelUpdateStageChanges(mm, msg) ==
    IF msg.err # nil
    THEN Result([mm EXCEPT !.state = "Error", !.err = msg.err], NoCmd, TRUE)
    ELSE Result([mm EXCEPT !.stagedChanges = TRUE, !.state = "GettingDiff"],
                Cmd("getDiff", <<>>), FALSE)

\* mutant: the diff is compared with "" without trimming it
modelUpdateGetDiffUntrimmed(mm, msg) ==
    IF msg.err # nil
    THEN Result([mm EXCEPT !.state = "Error", !.err = msg.err], NoCmd, TRUE)
    ELSE IF msg.diff = <<>>
    THEN Result([mm EXCEPT !.state = "Error", !.err = "no changes to commit"], NoCmd, TRUE)
    ELSE IF mm.useCustomMsg
    THEN Result([mm EXCEPT !.diff = msg.diff, !.state = "Confirming"], NoCmd, FALSE)
    ELSE Result([mm EXCEPT !.diff = msg.diff, !.state = "Generating"],
                Cmd("generateMessage", msg.diff), FALSE)

modelUpdateGetDiff(mm, msg) ==
    IF msg.err # nil
    THEN Result([mm EXCEPT !.state = "Error", !.err = msg.err], NoCmd, TRUE)
    ELSE IF TrimSpace(msg.diff) = <<>>
    THEN Result([mm EXCEPT !.state = "Error", !.err = "no changes to commit"], NoCmd, TRUE)
    ELSE IF mm.useCustomMsg
    THEN Result([mm EXCEPT !.diff = msg.diff, !.state = "Confirming"], NoCmd, FALSE)
    ELSE Result([mm EXCEPT !.diff = msg.diff, !.state = "Generating"],
                Cmd("generateMessage", msg.diff), FALSE)

\* the revision with the validation of the generated message
modelUpdateGenerateMsgValidated(mm, msg) ==
    IF msg.err # nil
    THEN Result([mm EXCEPT !.state = "Error", !.err = msg.err], NoCmd, TRUE)
    ELSE LET cleanMsg == TrimSpace(msg.message)
             parts == Split(cleanMsg, ":")
         IN  IF cleanMsg = <<>>
             THEN Result([mm EXCEPT !.state = "Error",
                                    !.err = "AI generated an empty commit message"],
                         NoCmd, TRUE)
             ELSE IF Len(parts) < 2 \/ parts[1] = <<>>
             THEN Result([mm EXCEPT !.state = "Error",
                                    !.err = "Invalid commit message format"],
                         NoCmd, TRUE)
             ELSE Result([mm EXCEPT !.commitMessage = cleanMsg, !.generatedMsg = TRUE,
                                    !.state = "Confirming"], NoCmd, FALSE)

\* the revision without it
modelUpdateGenerateMsgPlain(mm, msg) ==
    IF msg.err # nil
    THEN Result([mm EXCEPT !.state = "Error", !.err = msg.err], NoCmd, TRUE)
    ELSE Result([mm EXCEPT !.commitMessage = msg.message, !.generatedMsg = TRUE,
                           !.state = "Confirming"], NoCmd, FALSE)

modelUpdateGenerateMsg(mm, msg, version) ==
    IF version = "part_001"
    THEN modelUpdateGenerateMsgValidated(mm, msg)
    ELSE modelUpdateGenerateMsgPlain(mm, msg)

\* mutant: a failed commit is scheduled again
modelUpdateCommitRetries(mm, msg) ==
    IF msg.err # nil
    THEN Result(mm, Cmd("commitChanges", mm.commitMessage), FALSE)
    ELSE Result([mm EXCEPT !.state = "Done"], NoCmd, TRUE)

modelUpdateCommit(mm, msg) ==
    IF msg.err # nil
    THEN Result([mm EXCEPT !.state = "Error", !.err = msg.err], NoCmd, TRUE)
    ELSE Result([mm EXCEPT !.state = "Done"], NoCmd, TRUE)

SaveResults(e) ==
    CASE e.kind = "checkOllama" ->
            {[kind |-> "checkOllamaMsg", running |-> r] : r \in BOOLEAN}
      [] e.kind = "stageChanges" ->
            {[kind |-> "stageChangesMsg", err |-> x] : x \in {nil, ErrEffect}}
      [] e.kind = "getDiff" ->
            {[kind |-> "getDiffMsg", diff |-> d, err |-> nil] : d \in Diffs}
            \cup {[kind |-> "getDiffMsg", diff |-> <<>>, err |-> ErrEffect]}
      [] e.kind = "generateMessage" ->
            {[kind |-> "generateMsgMsg", message |-> g, err |-> nil] : g \in GenMessages}
            \cup {[kind |-> "generateMsgMsg", message |-> <<>>, err |-> ErrEffect]}
      [] e.kind = "commitChanges" ->
            {[kind |-> "commitMsg", err |-> x] : x \in {nil, ErrEffect}}

modelUpdateMsg(mm, msg, version) ==
    CASE msg.kind = "checkOllamaMsg" -> modelUpdateCheckOllama(mm, msg)
      [] msg.kind = "stageChangesMsg" -> modelUpdateStageChanges(mm, msg)
      [] msg.kind = "getDiffMsg" -> modelUpdateGetDiff(mm, msg)
      [] msg.kind = "generateMsgMsg" -> modelUpdateGenerateMsg(mm, msg, version)
      [] msg.kind = "commitMsg" -> modelUpdateCommit(mm, msg)

----------------------------------------------------------------------------
(* branch flow *)

BranchNames == {<<"d">>, <<"y">>}

BranchInfo(name, current) == [Name |-> name, Current |-> current]

\* what GetBranches can return: git marks the checked-out branch with "* "
BranchLists ==
    {<<>>, <<BranchInfo(<<"d">>, repoBranch = <<"d">>),
             BranchInfo(<<"y">>, repoBranch = <<"y">>)>>}

\* (mode, branchName) pairs main() can pass
BranchArgs ==
    {<<"list", <<>>>>, <<"new", <<>>>>}
    \cup {<<mode, name>> : mode \in {"new", "switch", "delete"}, name \in BranchNames}

initialBranchModel(mode, branchName) ==
    [state |-> "List", branches |-> <<>>, cursor |-> 0, textInput |-> <<>>,
     err |-> nil, mode |-> mode, branchName |-> branchName, showHelp |-> (mode = "list")]

branchModelInit == Cmd("getBranches", <<>>)

branchModelUpdateKeyCreating(mm, key) ==
    IF key \in {"ctrl+c", "q"} THEN Result(mm, NoCmd, TRUE)
    ELSE IF key = "enter"
    THEN LET branchName == TrimSpace(mm.textInput) IN
         IF branchName = <<>>
         THEN Result([mm EXCEPT !.state = "Error", !.err = "branch name cannot be empty"],
                     NoCmd, TRUE)
         ELSE Result([mm EXCEPT !.branchName = branchName],
                     Cmd("createAndSwitchBranch", branchName), FALSE)
    ELSE Result([mm EXCEPT !.textInput = TextInputUpdate(mm.textInput, key)], NoCmd, FALSE)

\* mutant: 'd' does not look at the current marker
branchModelUpdateKeyDeleteAny(mm) ==
    IF Len(mm.branches) > 0 /\ mm.cursor < Len(mm.branches)
    THEN LET selectedBranch == mm.branches[mm.cursor + 1] IN
         Result([mm EXCEPT !.branchName = selectedBranch.Name, !.state = "Deleting"],
                Cmd("deleteBranchCmd", selectedBranch.Name), FALSE)
    ELSE Result(mm, NoCmd, FALSE)

branchModelUpdateKeyDelete(mm) ==
    IF Len(mm.branches) > 0 /\ mm.cursor < Len(mm.branches)
    THEN LET selectedBranch == mm.branches[mm.cursor + 1] IN
         IF selectedBranch.Current
         THEN Result([mm EXCEPT !.state = "Error", !.err = "cannot delete current branch"],
                     NoCmd, TRUE)
         ELSE Result([mm EXCEPT !.branchName = selectedBranch.Name, !.state = "Deleting"],
                     Cmd("deleteBranchCmd", selectedBranch.Name), FALSE)
    ELSE Result(mm, NoCmd, FALSE)

branchModelUpdateKeyEnter(mm) ==
    IF Len(mm.branches) > 0 /\ mm.cursor < Len(mm.branches)
       /\ ~mm.branches[mm.cursor + 1].Current
    THEN LET selectedBranch == mm.branches[mm.cursor + 1] IN
         Result([mm EXCEPT !.branchName = selectedBranch.Name, !.state = "Switching"],
                Cmd("switchToBranch", selectedBranch.Name), FALSE)
    ELSE Result(mm, NoCmd, FALSE)

branchModelUpdateKeyList(mm, key) ==
    IF key \in {"ctrl+c", "q"} THEN Result(mm, NoCmd, TRUE)
    ELSE IF key \in {"up", "k"}
    THEN Result(IF mm.cursor > 0 THEN [mm EXCEPT !.cursor = @ - 1] ELSE mm, NoCmd, FALSE)
    ELSE IF key \in {"down", "j"}
    THEN Result(IF mm.cursor < Len(mm.branches) - 1 THEN [mm EXCEPT !.cursor = @ + 1] ELSE mm,
                NoCmd, FALSE)
    ELSE IF key = "enter" THEN branchModelUpdateKeyEnter(mm)
    ELSE IF key = "n"
    THEN Result([mm EXCEPT !.mode = "new", !.state = "Creating"], NoCmd, FALSE)
    ELSE IF key = "d" THEN branchModelUpdateKeyDelete(mm)
    ELSE IF key = "?" THEN Result([mm EXCEPT !.showHelp = ~@], NoCmd, FALSE)
    ELSE Result(mm, NoCmd, FALSE)

branchModelUpdateKey(mm, key) ==
    IF mm.state = "Creating" /\ mm.mode = "new" THEN branchModelUpdateKeyCreating(mm, key)
    ELSE IF mm.state = "List" THEN branchModelUpdateKeyList(mm, key)
    ELSE Result(mm, NoCmd, FALSE)

branchModelUpdateGetBranches(mm, msg) ==
    IF msg.err # nil
    THEN Result([mm EXCEPT !.state = "Error", !.err = msg.err], NoCmd, TRUE)
    ELSE LET m1 == [mm EXCEPT !.branches = msg.branches] IN
         CASE mm.mode = "new" ->
                IF mm.branchName = <<>>
                THEN Result([m1 EXCEPT !.state = "Creating"], NoCmd, FALSE)
                ELSE Result(m1, Cmd("createAndSwitchBranch", mm.branchName), FALSE)
           [] mm.mode = "switch" ->
                Result([m1 EXCEPT !.state = "Switching"],
                       Cmd("switchToBranch", mm.branchName), FALSE)
           [] mm.mode = "delete" ->
                Result([m1 EXCEPT !.state = "Deleting"],
                       Cmd("deleteBranchCmd", mm.branchName), FALSE)
           [] OTHER -> Result([m1 EXCEPT !.state = "List"], NoCmd, FALSE)

\* createBranchMsg, switchBranchMsg and deleteBranchMsg are handled alike
branchModelUpdateDone(mm, msg) ==
    IF msg.err # nil
    THEN Result([mm EXCEPT !.state = "Error", !.err = msg.err], NoCmd, TRUE)
    ELSE Result([mm EXCEPT !.state = "Done"], NoCmd, TRUE)

\* git branch -d refuses the checked-out branch and may refuse an unmerged one
DeleteBranch(branchName) ==
    IF branchName = repoBranch THEN {ErrEffect} ELSE {nil, ErrEffect}

\* the checked-out branch after effect e completed with msg
BranchAfter(e, msg) ==
    IF msg.kind \in {"createBranchMsg", "switchBranchMsg"} /\ msg.err = nil
    THEN e.arg ELSE repoBranch

BranchResults(e) ==
    CASE e.kind = "getBranches" ->
            {[kind |-> "getBranchesMsg", branches |-> b, err |-> nil] : b \in BranchLists}
            \cup {[kind |-> "getBranchesMsg", branches |-> <<>>, err |-> ErrEffect]}
      [] e.kind = "createAndSwitchBranch" ->
            {[kind |-> "createBranchMsg", err |-> x] : x \in {nil, ErrEffect}}
      [] e.kind = "switchToBranch" ->
            {[kind |-> "switchBranchMsg", err |-> x] : x \in {nil, ErrEffect}}
      [] e.kind = "deleteBranchCmd" ->
            {[kind |-> "deleteBranchMsg", err |-> x] : x \in DeleteBranch(e.arg)}

branchModelUpdateMsg(mm, msg) ==
    IF msg.kind = "getBranchesMsg" THEN branchModelUpdateGetBranches(mm, msg)
    ELSE branchModelUpdateDone(mm, msg)

----------------------------------------------------------------------------
(* replay flow *)

OntoBranches == {<<"d">>}

\* what GetCurrentBranch can return inside the checkRebaseMsg handler
CurrentBranchResults ==
    {[branch |-> b, err |-> nil] : b \in BranchNames}
    \cup {[branch |-> <<>>, err |-> ErrEffect]}

CommitInfo(message, hash, shortHash, author) ==
    [Message |-> message, Hash |-> hash, ShortHash |-> shortHash, Author |-> author]

c1 == CommitInfo(<<"N", "y">>, <<"d", "d">>, <<"d">>, <<"e">>)
c2 == CommitInfo(<<"y">>, <<"y", "d">>, <<"y">>, <<"N">>)
c3 == CommitInfo(<<"e">>, <<"e", "e">>, <<"e">>, <<"e">>)

CommitLists == {<<>>, <<c1, c2>>, <<c1, c2, c3>>}

\* command outputs, as sequences of words
Outputs == {<<>>, <<"Successfully", "rebased">>, <<"CONFLICT", "(content)">>,
            <<"Merge", "conflict", "in", "f">>}

initialReplayModel(ontoBranch, interactive) ==
    [state |-> "Checking", err |-> nil, ontoBranch |-> ontoBranch,
     currentBranch |-> <<>>, commits |-> <<>>, interactive |-> interactive,
     output |-> <<>>, cursor |-> 0]

replayModelInit == Cmd("checkForRebase", <<>>)

\* mutant: 'y' starts the replay in every state
replayModelUpdateKeyAnyState(mm, key) ==
    IF mm.state \in {"ShowingCommits", "Confirming"} /\ key \in {"ctrl+c", "q", "n", "N"}
    THEN Result([mm EXCEPT !.state = "Done", !.err = "replay cancelled"], NoCmd, TRUE)
    ELSE IF key \in {"y", "Y"} \/ (mm.state = "ShowingCommits" /\ key = "enter")
    THEN Result([mm EXCEPT !.state = "Replaying"],
                Cmd("replayCommits", mm.ontoBranch), FALSE)
    ELSE Result(mm, NoCmd, FALSE)

replayModelUpdateKey(mm, key) ==
    IF mm.state = "ShowingCommits"
    THEN IF key \in {"ctrl+c", "q", "n", "N"}
         THEN Result([mm EXCEPT !.state = "Done", !.err = "replay cancelled"], NoCmd, TRUE)
         ELSE IF key \in {"y", "Y", "enter"}
         THEN Result([mm EXCEPT !.state = "Replaying"],
                     Cmd("replayCommits", mm.ontoBranch), FALSE)
         ELSE Result(mm, NoCmd, FALSE)
    ELSE IF mm.state = "Confirming"
    THEN IF key \in {"ctrl+c", "q", "n", "N"}
         THEN Result([mm EXCEPT !.state = "Done", !.err = "replay cancelled"], NoCmd, TRUE)
         ELSE IF key \in {"y", "Y"}
         THEN Result([mm EXCEPT !.state = "Replaying"],
                     Cmd("replayCommits", mm.ontoBranch), FALSE)
         ELSE Result(mm, NoCmd, FALSE)
    ELSE Result(mm, NoCmd, FALSE)

\* cur is the result of the GetCurrentBranch call the handler makes
replayModelUpdateCheckRebase(mm, msg, cur) ==
    IF msg.err # nil
    THEN Result([mm EXCEPT !.state = "Error", !.err = msg.err], NoCmd, TRUE)
    ELSE IF msg.inProgress
    THEN Result([mm EXCEPT !.state = "Error", !.err = "rebase already in progress"],
                NoCmd, TRUE)
    ELSE IF cur.err # nil
    THEN ResultCalling([mm EXCEPT !.state = "Error", !.err = cur.err], NoCmd, TRUE,
                       <<"GetCurrentBranch">>)
    ELSE IF cur.branch = mm.ontoBranch
    THEN ResultCalling([mm EXCEPT !.currentBranch = cur.branch, !.state = "Error",
                                  !.err = "already on branch, nothing to replay"],
                       NoCmd, TRUE, <<"GetCurrentBranch">>)
    ELSE ResultCalling([mm EXCEPT !.currentBranch = cur.branch],
                       Cmd("getReplayCommitsCmd", mm.ontoBranch), FALSE,
                       <<"GetCurrentBranch">>)

\* mutant: an empty list of commits is shown for confirmation
replayModelUpdateGetReplayCommitsShowsEmpty(mm, msg) ==
    IF msg.err # nil
    THEN Result([mm EXCEPT !.state = "Error", !.err = msg.err], NoCmd, TRUE)
    ELSE Result([mm EXCEPT !.commits = msg.commits, !.state = "ShowingCommits"],
                NoCmd, FALSE)

replayModelUpdateGetReplayCommits(mm, msg) ==
    IF msg.err # nil
    THEN Result([mm EXCEPT !.state = "Error", !.err = msg.err], NoCmd, TRUE)
    ELSE IF Len(msg.commits) = 0
    THEN Result([mm EXCEPT !.commits = msg.commits, !.state = "Error",
                           !.err = "no commits to replay"], NoCmd, TRUE)
    ELSE Result([mm EXCEPT !.commits = msg.commits, !.state = "ShowingCommits"],
                NoCmd, FALSE)

\* mutant: the conflict branch also records the error
replayModelUpdateReplayCommitsSetsErr(mm, msg) ==
    IF msg.err # nil
    THEN IF Contains(msg.output, <<"CONFLICT">>) \/ Contains(msg.output, <<"conflict">>)
         THEN Result([mm EXCEPT !.state = "Conflict", !.err = msg.err,
                                !.output = msg.output], NoCmd, TRUE)
         ELSE Result([mm EXCEPT !.state = "Error", !.err = msg.err,
                                !.output = msg.output], NoCmd, TRUE)
    ELSE Result([mm EXCEPT !.output = msg.output, !.state = "Done"], NoCmd, TRUE)

replayModelUpdateReplayCommits(mm, msg) ==
    IF msg.err # nil
    THEN IF Contains(msg.output, <<"CONFLICT">>) \/ Contains(msg.output, <<"conflict">>)
         THEN Result([mm EXCEPT !.state = "Conflict", !.output = msg.output], NoCmd, TRUE)
         ELSE Result([mm EXCEPT !.state = "Error", !.err = msg.err,
                                !.output = msg.output], NoCmd, TRUE)
    ELSE Result([mm EXCEPT !.output = msg.output, !.state = "Done"], NoCmd, TRUE)

ReplayResults(e) ==
    CASE e.kind = "checkForRebase" ->
            {[kind |-> "checkRebaseMsg", inProgress |-> b, err |-> nil] : b \in BOOLEAN}
            \cup {[kind |-> "checkRebaseMsg", inProgress |-> FALSE, err |-> ErrEffect]}
      [] e.kind = "getReplayCommitsCmd" ->
            {[kind |-> "getReplayCommitsMsg", commits |-> c, err |-> nil] : c \in CommitLists}
            \cup {[kind |-> "getReplayCommitsMsg", commits |-> <<>>, err |-> ErrEffect]}
      [] e.kind = "replayCommits" ->
            {[kind |-> "replayCommitsMsg", output |-> o, err |-> x] :
                o \in Outputs, x \in {nil, ErrEffect}}

replayModelUpdateMsg(mm, msg, cur) ==
    CASE msg.kind = "checkRebaseMsg" -> replayModelUpdateCheckRebase(mm, msg, cur)
      [] msg.kind = "getReplayCommitsMsg" -> replayModelUpdateGetReplayCommits(mm, msg)
      [] msg.kind = "replayCommitsMsg" -> replayModelUpdateReplayCommits(mm, msg)

----------------------------------------------------------------------------
(* sync flow *)

initialSyncModel(pullOnly) ==
    [state |-> "Checking", err |-> nil, pullOnly |-> pullOnly, branch |-> <<>>,
     pullOutput |-> <<>>, pushOutput |-> <<>>]

syncModelInit == Cmd("checkSync", <<>>)

syncModelUpdateKey(mm, key) ==
    IF key \in {"ctrl+c", "q"} THEN Result(mm, NoCmd, TRUE) ELSE Result(mm, NoCmd, FALSE)

\* mutant: uncommitted changes do not stop the sync
syncModelUpdateCheckIgnoresChanges(mm, msg) ==
    IF msg.err # nil
    THEN Result([mm EXCEPT !.state = "Error", !.err = msg.err], NoCmd, TRUE)
    ELSE IF ~msg.hasRemote
    THEN Result([mm EXCEPT !.state = "Error", !.err = "no remote repository configured"],
                NoCmd, TRUE)
    ELSE Result([mm EXCEPT !.branch = msg.branch, !.state = "Pulling"],
                Cmd("pullChanges", <<>>), FALSE)

syncModelUpdateCheck(mm, msg) ==
    IF msg.err # nil
    THEN Result([mm EXCEPT !.state = "Error", !.err = msg.err], NoCmd, TRUE)
    ELSE IF ~msg.hasRemote
    THEN Result([mm EXCEPT !.state = "Error", !.err = "no remote repository configured"],
                NoCmd, TRUE)
    ELSE IF msg.hasChanges
    THEN Result([mm EXCEPT !.state = "Error",
                           !.err = "you have uncommitted changes - run 'snap save' first"],
                NoCmd, TRUE)
    ELSE Result([mm EXCEPT !.branch = msg.branch, !.state = "Pulling"],
                Cmd("pullChanges", <<>>), FALSE)

\* mutant: the push follows the pull even with pull-only set
syncModelUpdatePullAlwaysPushes(mm, msg) ==
    LET m1 == [mm EXCEPT !.pullOutput = msg.output] IN
    IF msg.err # nil
    THEN IF Contains(msg.output, <<"CONFLICT">>)
         THEN Result([m1 EXCEPT !.state = "Error", !.err = "merge conflict detected"],
                     NoCmd, TRUE)
         ELSE Result([m1 EXCEPT !.state = "Error", !.err = msg.err], NoCmd, TRUE)
    ELSE Result([m1 EXCEPT !.state = "Pushing"], Cmd("pushChanges", mm.branch), FALSE)

syncModelUpdatePull(mm, msg) ==
    LET m1 == [mm EXCEPT !.pullOutput = msg.output] IN
    IF msg.err # nil
    THEN IF Contains(msg.output, <<"CONFLICT">>)
         THEN Result([m1 EXCEPT !.state = "Error", !.err = "merge conflict detected"],
                     NoCmd, TRUE)
         ELSE Result([m1 EXCEPT !.state = "Error", !.err = msg.err], NoCmd, TRUE)
    ELSE IF mm.pullOnly
    THEN Result([m1 EXCEPT !.state = "Done"], NoCmd, TRUE)
    ELSE Result([m1 EXCEPT !.state = "Pushing"], Cmd("pushChanges", mm.branch), FALSE)

syncModelUpdatePush(mm, msg) ==
    LET m1 == [mm EXCEPT !.pushOutput = msg.output] IN
    IF msg.err # nil
    THEN Result([m1 EXCEPT !.state = "Error", !.err = msg.err], NoCmd, TRUE)
    ELSE Result([m1 EXCEPT !.state = "Done"], NoCmd, TRUE)

SyncResults(e) ==
    CASE e.kind = "checkSync" ->
            {[kind |-> "syncCheckMsg", hasRemote |-> r, hasChanges |-> c,
              branch |-> <<"d">>, err |-> nil] : r \in BOOLEAN, c \in BOOLEAN}
            \cup {[kind |-> "syncCheckMsg", hasRemote |-> FALSE, hasChanges |-> FALSE,
                   branch |-> <<>>, err |-> ErrEffect]}
      [] e.kind = "pullChanges" ->
            {[kind |-> "syncPullMsg", output |-> o, err |-> x] :
                o \in Outputs, x \in {nil, ErrEffect}}
      [] e.kind = "pushChanges" ->
            {[kind |-> "syncPushMsg", output |-> o, err |-> x] :
                o \in {<<>>, <<"ok">>}, x \in {nil, ErrEffect}}

syncModelUpdateMsg(mm, msg) ==
    CASE msg.kind = "syncCheckMsg" -> syncModelUpdateCheck(mm, msg)
      [] msg.kind = "syncPullMsg" -> syncModelUpdatePull(mm, msg)
      [] msg.kind = "syncPushMsg" -> syncModelUpdatePush(mm, msg)

----------------------------------------------------------------------------
(* stack flow *)

\* the nil *CommitInfo
nilCommit == CommitInfo(<<>>, <<>>, <<>>, <<>>)

initialStackModel ==
    [state |-> "Loading", textInput |-> <<>>, commits |-> <<>>, filteredCommits |-> <<>>,
     cursor |-> 0, err |-> nil, filterMode |-> FALSE, filterQuery |-> <<>>,
     showHelp |-> TRUE, selectedCommit |-> nilCommit]

stackModelInit == Cmd("getCommits", <<>>)

\* mutant: the author is not searched
commitMatchesNoAuthor(commit, query) ==
    \/ Contains(ToLower(commit.Message), query)
    \/ Contains(ToLower(commit.Hash), query)
    \/ Contains(ToLower(commit.ShortHash), query)

commitMatches(commit, query) ==
    \/ Contains(ToLower(commit.Message), query)
    \/ Contains(ToLower(commit.Hash), query)
    \/ Contains(ToLower(commit.ShortHash), query)
    \/ Contains(ToLower(commit.Author), query)

stackModelApplyFilter(mm) ==
    IF mm.filterQuery = <<>>
    THEN [mm EXCEPT !.filteredCommits = mm.commits]
    ELSE LET query == ToLower(mm.filterQuery) IN
         [mm EXCEPT !.filteredCommits =
                        SelectSeq(mm.commits, LAMBDA commit : commitMatches(commit, query))]

stackModelGetDisplayCommits(mm) ==
    IF mm.filterQuery # <<>> THEN mm.filteredCommits ELSE mm.commits

stackModelUpdateKeyEnterFilter(mm) ==
    Result([mm EXCEPT !.filterMode = TRUE, !.filterQuery = <<>>, !.textInput = <<>>],
           NoCmd, FALSE)

\* mutant: a typed filter key leaves the cursor where it was
stackModelUpdateKeyFilterKeepsCursor(mm, key) ==
    IF key \in {"esc", "ctrl+c", "q"}
    THEN Result([mm EXCEPT !.filterMode = FALSE, !.filterQuery = <<>>, !.textInput = <<>>,
                           !.filteredCommits = mm.commits, !.cursor = 0], NoCmd, FALSE)
    ELSE IF key = "enter"
    THEN Result([mm EXCEPT !.filterMode = FALSE], NoCmd, FALSE)
    ELSE LET value == TextInputUpdate(mm.textInput, key)
         IN  Result(stackModelApplyFilter([mm EXCEPT !.textInput = value,
                                                     !.filterQuery = value]),
                    NoCmd, FALSE)

stackModelUpdateKeyFilter(mm, key) ==
    IF key \in {"esc", "ctrl+c", "q"}
    THEN Result([mm EXCEPT !.filterMode = FALSE, !.filterQuery = <<>>, !.textInput = <<>>,
                           !.filteredCommits = mm.commits, !.cursor = 0], NoCmd, FALSE)
    ELSE IF key = "enter"
    THEN Result([mm EXCEPT !.filterMode = FALSE], NoCmd, FALSE)
    ELSE LET value == TextInputUpdate(mm.textInput, key)
             m1 == stackModelApplyFilter([mm EXCEPT !.textInput = value,
                                                    !.filterQuery = value])
         IN  Result([m1 EXCEPT !.cursor = 0], NoCmd, FALSE)

stackModelUpdateKeyCheckout(mm) ==
    LET commits == stackModelGetDisplayCommits(mm) IN
    IF Len(commits) > 0 /\ mm.cursor < Len(commits)
    THEN IF mm.cursor < 0 THEN Panic(mm) ELSE
         Result([mm EXCEPT !.selectedCommit = commits[mm.cursor + 1],
                           !.state = "CheckingOut"],
                Cmd("checkoutCommitCmd", commits[mm.cursor + 1].Hash), FALSE)
    ELSE Result(mm, NoCmd, FALSE)

\* mutant: 'c' clears the filter but leaves the cursor where it was
stackModelUpdateKeyNavClearKeepsCursor(mm, key) ==
    IF key \in {"ctrl+c", "q"} THEN Result(mm, NoCmd, TRUE)
    ELSE IF key \in {"up", "k"}
    THEN Result(IF mm.cursor > 0 THEN [mm EXCEPT !.cursor = @ - 1] ELSE mm, NoCmd, FALSE)
    ELSE IF key \in {"down", "j"}
    THEN Result(IF mm.cursor < Len(stackModelGetDisplayCommits(mm)) - 1
                THEN [mm EXCEPT !.cursor = @ + 1] ELSE mm, NoCmd, FALSE)
    ELSE IF key = "g" THEN Result([mm EXCEPT !.cursor = 0], NoCmd, FALSE)
    ELSE IF key = "G"
    THEN Result([mm EXCEPT !.cursor = Len(stackModelGetDisplayCommits(mm)) - 1],
                NoCmd, FALSE)
    ELSE IF key = "c"
    THEN Result([mm EXCEPT !.filterQuery = <<>>, !.textInput = <<>>,
                           !.filteredCommits = mm.commits], NoCmd, FALSE)
    ELSE IF key = "enter" THEN stackModelUpdateKeyCheckout(mm)
    ELSE IF key = "?" THEN Result([mm EXCEPT !.showHelp = ~@], NoCmd, FALSE)
    ELSE Result(mm, NoCmd, FALSE)

stackModelUpdateKeyNav(mm, key) ==
    IF key \in {"ctrl+c", "q"} THEN Result(mm, NoCmd, TRUE)
    ELSE IF key \in {"up", "k"}
    THEN Result(IF mm.cursor > 0 THEN [mm EXCEPT !.cursor = @ - 1] ELSE mm, NoCmd, FALSE)
    ELSE IF key \in {"down", "j"}
    THEN Result(IF mm.cursor < Len(stackModelGetDisplayCommits(mm)) - 1
                THEN [mm EXCEPT !.cursor = @ + 1] ELSE mm, NoCmd, FALSE)
    ELSE IF key = "g" THEN Result([mm EXCEPT !.cursor = 0], NoCmd, FALSE)
    ELSE IF key = "G"
    THEN Result([mm EXCEPT !.cursor = Len(stackModelGetDisplayCommits(mm)) - 1],
                NoCmd, FALSE)
    ELSE IF key = "c"
    THEN Result([mm EXCEPT !.filterQuery = <<>>, !.textInput = <<>>,
                           !.filteredCommits = mm.commits, !.cursor = 0], NoCmd, FALSE)
    ELSE IF key = "enter" THEN stackModelUpdateKeyCheckout(mm)
    ELSE IF key = "?" THEN Result([mm EXCEPT !.showHelp = ~@], NoCmd, FALSE)
    ELSE Result(mm, NoCmd, FALSE)

stackModelUpdateKey(mm, key) ==
    IF mm.state = "List"
    THEN IF ~mm.filterMode /\ key = "/" THEN stackModelUpdateKeyEnterFilter(mm)
         ELSE IF mm.filterMode THEN stackModelUpdateKeyFilter(mm, key)
         ELSE stackModelUpdateKeyNav(mm, key)
    ELSE Result(mm, NoCmd, FALSE)

stackModelUpdateGetCommits(mm, msg) ==
    IF msg.err # nil
    THEN Result([mm EXCEPT !.state = "Error", !.err = msg.err], NoCmd, TRUE)
    ELSE IF Len(msg.commits) = 0
    THEN Result([mm EXCEPT !.commits = msg.commits, !.filteredCommits = msg.commits,
                           !.state = "Error", !.err = "no commits found"], NoCmd, TRUE)
    ELSE Result([mm EXCEPT !.commits = msg.commits, !.filteredCommits = msg.commits,
                           !.state = "List"], NoCmd, FALSE)

\* mutant: a finished checkout does not end the loop
stackModelUpdateCheckoutKeepsRunning(mm, msg) ==
    IF msg.err # nil
    THEN Result([mm EXCEPT !.state = "Error", !.err = msg.err], NoCmd, TRUE)
    ELSE Result([mm EXCEPT !.state = "Done"], NoCmd, FALSE)

stackModelUpdateCheckout(mm, msg) ==
    IF msg.err # nil
    THEN Result([mm EXCEPT !.state = "Error", !.err = msg.err], NoCmd, TRUE)
    ELSE Result([mm EXCEPT !.state = "Done"], NoCmd, TRUE)

StackResults(e) ==
    CASE e.kind = "getCommits" ->
            {[kind |-> "getCommitsMsg", commits |-> c, err |-> nil] : c \in CommitLists}
            \cup {[kind |-> "getCommitsMsg", commits |-> <<>>, err |-> ErrEffect]}
      [] e.kind = "checkoutCommitCmd" ->
            {[kind |-> "checkoutCommitMsg", err |-> x] : x \in {nil, ErrEffect}}

stackModelUpdateMsg(mm, msg) ==
    CASE msg.kind = "getCommitsMsg" -> stackModelUpdateGetCommits(mm, msg)
      [] msg.kind = "checkoutCommitMsg" -> stackModelUpdateCheckout(mm, msg)

----------------------------------------------------------------------------
(* tags flow *)

TagInfo(name, message, shortHash) ==
    [Name |-> name, Message |-> message, ShortHash |-> shortHash]

t1 == TagInfo(<<"y", "d">>, <<"N">>, <<"e">>)
t2 == TagInfo(<<"y", "e">>, <<"e">>, <<"d">>)

TagLists == {<<>>, <<t1, t2>>, <<t2, t1, t2>>}

initialTagsModel ==
    [state |-> "Loading", textInput |-> <<>>, tags |-> <<>>, filteredTags |-> <<>>,
     cursor |-> 0, err |-> nil, filterMode |-> FALSE, filterQuery |-> <<>>,
     showHelp |-> TRUE]

tagsModelInit == Cmd("getTagsCmd", <<>>)

tagMatches(tag, query) ==
    \/ Contains(ToLower(tag.Name), query)
    \/ Contains(ToLower(tag.Message), query)
    \/ Contains(ToLower(tag.ShortHash), query)

tagsModelApplyFilter(mm) ==
    IF mm.filterQuery = <<>>
    THEN [mm EXCEPT !.filteredTags = mm.tags]
    ELSE LET query == ToLower(mm.filterQuery) IN
         [mm EXCEPT !.filteredTags = SelectSeq(mm.tags, LAMBDA tag : tagMatches(tag, query))]

tagsModelGetDisplayTags(mm) ==
    IF mm.filterQuery # <<>> THEN mm.filteredTags ELSE mm.tags

tagsModelUpdateKeyEnterFilter(mm) ==
    Result([mm EXCEPT !.filterMode = TRUE, !.filterQuery = <<>>, !.textInput = <<>>],
           NoCmd, FALSE)

\* mutant: cancelling the filter keeps the filtered list and the cursor
tagsModelUpdateKeyFilterCancelKeepsList(mm, key) ==
    IF key \in {"esc", "ctrl+c", "q"}
    THEN Result([mm EXCEPT !.filterMode = FALSE, !.filterQuery = <<>>, !.textInput = <<>>],
                NoCmd, FALSE)
    ELSE IF key = "enter"
    THEN Result([mm EXCEPT !.filterMode = FALSE], NoCmd, FALSE)
    ELSE LET value == TextInputUpdate(mm.textInput, key)
             m1 == tagsModelApplyFilter([mm EXCEPT !.textInput = value,
                                                   !.filterQuery = value])
         IN  Result([m1 EXCEPT !.cursor = 0], NoCmd, FALSE)

tagsModelUpdateKeyFilter(mm, key) ==
    IF key \in {"esc", "ctrl+c", "q"}
    THEN Result([mm EXCEPT !.filterMode = FALSE, !.filterQuery = <<>>, !.textInput = <<>>,
                           !.filteredTags = mm.tags, !.cursor = 0], NoCmd, FALSE)
    ELSE IF key = "enter"
    THEN Result([mm EXCEPT !.filterMode = FALSE], NoCmd, FALSE)
    ELSE LET value == TextInputUpdate(mm.textInput, key)
             m1 == tagsModelApplyFilter([mm EXCEPT !.textInput = value,
                                                   !.filterQuery = value])
         IN  Result([m1 EXCEPT !.cursor = 0], NoCmd, FALSE)

tagsModelUpdateKeyNav(mm, key) ==
    IF key \in {"ctrl+c", "q"} THEN Result(mm, NoCmd, TRUE)
    ELSE IF key \in {"up", "k"}
    THEN Result(IF mm.cursor > 0 THEN [mm EXCEPT !.cursor = @ - 1] ELSE mm, NoCmd, FALSE)
    ELSE IF key \in {"down", "j"}
    THEN Result(IF mm.cursor < Len(tagsModelGetDisplayTags(mm)) - 1
                THEN [mm EXCEPT !.cursor = @ + 1] ELSE mm, NoCmd, FALSE)
    ELSE IF key = "g" THEN Result([mm EXCEPT !.cursor = 0], NoCmd, FALSE)
    ELSE IF key = "G"
    THEN Result([mm EXCEPT !.cursor = Len(tagsModelGetDisplayTags(mm)) - 1], NoCmd, FALSE)
    ELSE IF key = "c"
    THEN Result([mm EXCEPT !.filterQuery = <<>>, !.textInput = <<>>,
                           !.filteredTags = mm.tags, !.cursor = 0], NoCmd, FALSE)
    ELSE IF key = "?" THEN Result([mm EXCEPT !.showHelp = ~@], NoCmd, FALSE)
    ELSE Result(mm, NoCmd, FALSE)

tagsModelUpdateKey(mm, key) ==
    IF mm.state = "List"
    THEN IF ~mm.filterMode /\ key = "/" THEN tagsModelUpdateKeyEnterFilter(mm)
         ELSE IF mm.filterMode THEN tagsModelUpdateKeyFilter(mm, key)
         ELSE tagsModelUpdateKeyNav(mm, key)
    ELSE Result(mm, NoCmd, FALSE)

tagsModelUpdateGetTags(mm, msg) ==
    IF msg.err # nil
    THEN Result([mm EXCEPT !.state = "Error", !.err = msg.err], NoCmd, TRUE)
    ELSE IF Len(msg.tags) = 0
    THEN Result([mm EXCEPT !.tags = msg.tags, !.filteredTags = msg.tags,
                           !.state = "Error", !.err = "no tags found"], NoCmd, TRUE)
    ELSE Result([mm EXCEPT !.tags = msg.tags, !.filteredTags = msg.tags,
                           !.state = "List"], NoCmd, FALSE)

TagsResults(e) ==
    {[kind |-> "getTagsMsg", tags |-> t, err |-> nil] : t \in TagLists}
    \cup {[kind |-> "getTagsMsg", tags |-> <<>>, err |-> ErrEffect]}

----------------------------------------------------------------------------
(* tag-diff and tag-create flows *)

PreviousTags == {<<"y", "d">>, <<"(no previous tag)">>}

\* what getTagsDiffCmd can return
TagsDiffResults ==
    {[kind |-> "getTagsDiffMsg", commits |-> c, previousTag |-> t, err |-> nil] :
        c \in CommitLists, t \in PreviousTags}
    \cup {[kind |-> "getTagsDiffMsg", commits |-> <<>>, previousTag |-> <<>>,
           err |-> ErrEffect]}

initialTagsDiffModel ==
    [state |-> "Loading", commits |-> <<>>, previousTag |-> <<>>, err |-> nil,
     cursor |-> 0, showHelp |-> TRUE]

tagsDiffModelInit == Cmd("getTagsDiffCmd", <<>>)

tagsDiffModelUpdateKey(mm, key) ==
    IF mm.state # "List" THEN Result(mm, NoCmd, FALSE)
    ELSE IF key \in {"ctrl+c", "q"} THEN Result(mm, NoCmd, TRUE)
    ELSE IF key \in {"up", "k"}
    THEN Result(IF mm.cursor > 0 THEN [mm EXCEPT !.cursor = @ - 1] ELSE mm, NoCmd, FALSE)
    ELSE IF key \in {"down", "j"}
    THEN Result(IF mm.cursor < Len(mm.commits) - 1 THEN [mm EXCEPT !.cursor = @ + 1] ELSE mm,
                NoCmd, FALSE)
    ELSE IF key = "g" THEN Result([mm EXCEPT !.cursor = 0], NoCmd, FALSE)
    ELSE IF key = "G" THEN Result([mm EXCEPT !.cursor = Len(mm.commits) - 1], NoCmd, FALSE)
    ELSE IF key = "?" THEN Result([mm EXCEPT !.showHelp = ~@], NoCmd, FALSE)
    ELSE Result(mm, NoCmd, FALSE)

tagsDiffModelUpdateGetTagsDiff(mm, msg) ==
    IF msg.err # nil
    THEN Result([mm EXCEPT !.state = "Error", !.err = msg.err], NoCmd, TRUE)
    ELSE IF Len(msg.commits) = 0
    THEN Result([mm EXCEPT !.commits = msg.commits, !.previousTag = msg.previousTag,
                           !.state = "Error", !.err = "no commits since tag"], NoCmd, TRUE)
    ELSE Result([mm EXCEPT !.commits = msg.commits, !.previousTag = msg.previousTag,
                           !.state = "List"], NoCmd, FALSE)

NewTags == {<<"y", "e">>}

initialTagsCreateModel(tagName) ==
    [state |-> "Loading", commits |-> <<>>, previousTag |-> <<>>, newTag |-> tagName,
     err |-> nil, cursor |-> 0, showHelp |-> TRUE]

tagsCreateModelInit == Cmd("getTagsDiffCmd", <<>>)

\* the tag message: the release line, the previous tag when there is one,
\* and the messages of the commits
tagsCreateModelGenerateTagMessage(mm) ==
    [newTag |-> mm.newTag,
     since |-> IF mm.previousTag # <<>> /\ mm.previousTag # <<"(no previous tag)">>
               THEN mm.previousTag ELSE <<>>,
     lines |-> [i \in 1..Len(mm.commits) |-> mm.commits[i].Message]]

tagsCreateModelUpdateKey(mm, key) ==
    IF mm.state # "Preview" THEN Result(mm, NoCmd, FALSE)
    ELSE IF key \in {"ctrl+c", "q", "n", "N"} THEN Result(mm, NoCmd, TRUE)
    ELSE IF key \in {"up", "k"}
    THEN Result(IF mm.cursor > 0 THEN [mm EXCEPT !.cursor = @ - 1] ELSE mm, NoCmd, FALSE)
    ELSE IF key \in {"down", "j"}
    THEN Result(IF mm.cursor < Len(mm.commits) - 1 THEN [mm EXCEPT !.cursor = @ + 1] ELSE mm,
                NoCmd, FALSE)
    ELSE IF key \in {"y", "Y", "enter"}
    THEN Result([mm EXCEPT !.state = "Creating"],
                Cmd("createTagCmd", tagsCreateModelGenerateTagMessage(mm)), FALSE)
    ELSE IF key = "?" THEN Result([mm EXCEPT !.showHelp = ~@], NoCmd, FALSE)
    ELSE Result(mm, NoCmd, FALSE)

tagsCreateModelUpdateGetTagsDiff(mm, msg) ==
    IF msg.err # nil
    THEN Result([mm EXCEPT !.state = "Error", !.err = msg.err], NoCmd, TRUE)
    ELSE Result([mm EXCEPT !.commits = msg.commits, !.previousTag = msg.previousTag,
                           !.state = "Preview"], NoCmd, FALSE)

\* mutant: a created tag is not pushed
tagsCreateModelUpdateCreateTagNoPush(mm, msg) ==
    IF msg.err # nil
    THEN Result([mm EXCEPT !.state = "Error", !.err = msg.err], NoCmd, TRUE)
    ELSE Result([mm EXCEPT !.state = "Pushing"], NoCmd, FALSE)

tagsCreateModelUpdateCreateTag(mm, msg) ==
    IF msg.err # nil
    THEN Result([mm EXCEPT !.state = "Error", !.err = msg.err], NoCmd, TRUE)
    ELSE Result([mm EXCEPT !.state = "Pushing"], Cmd("pushTagCmd", mm.newTag), FALSE)

\* on a push error the handler itself calls DeleteTag(m.newTag)
tagsCreateModelUpdatePushTag(mm, msg) ==
    IF msg.err # nil
    THEN ResultCalling([mm EXCEPT !.state = "Error", !.err = "failed to push tag"],
                       NoCmd, TRUE, <<"DeleteTag">>)
    ELSE Result([mm EXCEPT !.state = "Done"], NoCmd, TRUE)

\* DeleteTag returns an error or nil like the other git operations
DeleteTag == {nil, ErrEffect}

\* whether the tag exists after the effect that sent msg and after the
\* handler's own DeleteTag call, whose result the handler drops
TagAfter(msg) ==
    IF msg.kind = "createTagMsg" /\ msg.err = nil THEN {TRUE}
    ELSE IF msg.kind = "pushTagMsg" /\ msg.err # nil
    THEN {IF del = nil THEN FALSE ELSE localTag : del \in DeleteTag}
    ELSE {localTag}

TagsCreateResults(e) ==
    CASE e.kind = "getTagsDiffCmd" -> TagsDiffResults
      [] e.kind = "createTagCmd" ->
            {[kind |-> "createTagMsg", err |-> x] : x \in {nil, ErrEffect}}
      [] e.kind = "pushTagCmd" ->
            {[kind |-> "pushTagMsg", err |-> x] : x \in {nil, ErrEffect}}

tagsCreateModelUpdateMsg(mm, msg) ==
    CASE msg.kind = "getTagsDiffMsg" -> tagsCreateModelUpdateGetTagsDiff(mm, msg)
      [] msg.kind = "createTagMsg" -> tagsCreateModelUpdateCreateTag(mm, msg)
      [] msg.kind = "pushTagMsg" -> tagsCreateModelUpdatePushTag(mm, msg)

----------------------------------------------------------------------------
(* The bubbletea program: Update is called with one message at a time; the *)
(* commands it returns are started; tea.Quit ends the loop.                *)

RemoveAt(s, i) == SubSeq(s, 1, i - 1) \o SubSeq(s, i + 1, Len(s))

\* the typing bound: the runes typed into a text input are TypedRunes, and
\* they do not grow it beyond MaxText
TextBound(r, ev) ==
    (ev.type = "key" /\ "textInput" \in DOMAIN r.m
        /\ r.m.textInput = m.textInput \o <<ev.key>>)
    => (ev.key \in TypedRunes /\ Len(r.m.textInput) <= MaxText)

\* one pass of the event loop: Update(ev) returned r; rest are the commands
\* still running
StepEnv(r, ev, rest, branch, tag) ==
    /\ Len(rest) + Len(r.cmd) <= MaxInflight
    /\ TextBound(r, ev)
    /\ m' = r.m
    /\ inflight' = rest \o r.cmd
    /\ pc' = IF r.panic THEN "panic" ELSE IF r.quit THEN "quit" ELSE "running"
    /\ lastEvent' = ev
    /\ lastCmd' = r.cmd
    /\ lastCalls' = r.calls
    /\ repoBranch' = branch
    /\ localTag' = tag
    /\ UNCHANGED <<flow, srcVersion, exitCode>>

StepRepo(r, ev, rest, branch) == StepEnv(r, ev, rest, branch, localTag)

Step(r, ev, rest) == StepRepo(r, ev, rest, repoBranch)

SaveKey ==
    /\ flow = "save" /\ pc = "running"
    /\ \E key \in Keys : Step(modelUpdateKey(m, key), KeyEvent(key), inflight)

SaveComplete ==
    /\ flow = "save" /\ pc = "running"
    /\ \E i \in 1..Len(inflight) : \E msg \in SaveResults(inflight[i]) :
          Step(modelUpdateMsg(m, msg, srcVersion), MsgEvent(msg), RemoveAt(inflight, i))

BranchKey ==
    /\ flow = "branch" /\ pc = "running"
    /\ \E key \in Keys : Step(branchModelUpdateKey(m, key), KeyEvent(key), inflight)

BranchComplete ==
    /\ flow = "branch" /\ pc = "running"
    /\ \E i \in 1..Len(inflight) : \E msg \in BranchResults(inflight[i]) :
          StepRepo(branchModelUpdateMsg(m, msg), MsgEvent(msg), RemoveAt(inflight, i),
                   BranchAfter(inflight[i], msg))

ReplayKey ==
    /\ flow = "replay" /\ pc = "running"
    /\ \E key \in Keys : Step(replayModelUpdateKey(m, key), KeyEvent(key), inflight)

ReplayComplete ==
    /\ flow = "replay" /\ pc = "running"
    /\ \E i \in 1..Len(inflight) : \E msg \in ReplayResults(inflight[i]) :
       \E cur \in CurrentBranchResults :
          /\ cur.err = nil => cur.branch = repoBranch
          /\ Step(replayModelUpdateMsg(m, msg, cur), MsgEvent(msg), RemoveAt(inflight, i))

SyncKey ==
    /\ flow = "sync" /\ pc = "running"
    /\ \E key \in Keys : Step(syncModelUpdateKey(m, key), KeyEvent(key), inflight)

SyncComplete ==
    /\ flow = "sync" /\ pc = "running"
    /\ \E i \in 1..Len(inflight) : \E msg \in SyncResults(inflight[i]) :
          Step(syncModelUpdateMsg(m, msg), MsgEvent(msg), RemoveAt(inflight, i))

StackKey ==
    /\ flow = "stack" /\ pc = "running"
    /\ \E key \in Keys : Step(stackModelUpdateKey(m, key), KeyEvent(key), inflight)

StackComplete ==
    /\ flow = "stack" /\ pc = "running"
    /\ \E i \in 1..Len(inflight) : \E msg \in StackResults(inflight[i]) :
          Step(stackModelUpdateMsg(m, msg), MsgEvent(msg), RemoveAt(inflight, i))

TagsKey ==
    /\ flow = "tags" /\ pc = "running"
    /\ \E key \in Keys : Step(tagsModelUpdateKey(m, key), KeyEvent(key), inflight)

TagsComplete ==
    /\ flow = "tags" /\ pc = "running"
    /\ \E i \in 1..Len(inflight) : \E msg \in TagsResults(inflight[i]) :
          Step(tagsModelUpdateGetTags(m, msg), MsgEvent(msg), RemoveAt(inflight, i))

TagsDiffKey ==
    /\ flow = "tagsDiff" /\ pc = "running"
    /\ \E key \in Keys : Step(tagsDiffModelUpdateKey(m, key), KeyEvent(key), inflight)

TagsDiffComplete ==
    /\ flow = "tagsDiff" /\ pc = "running"
    /\ \E i \in 1..Len(inflight) : \E msg \in TagsDiffResults :
          Step(tagsDiffModelUpdateGetTagsDiff(m, msg), MsgEvent(msg), RemoveAt(inflight, i))

TagsCreateKey ==
    /\ flow = "tagsCreate" /\ pc = "running"
    /\ \E key \in Keys : Step(tagsCreateModelUpdateKey(m, key), KeyEvent(key), inflight)

TagsCreateComplete ==
    /\ flow = "tagsCreate" /\ pc = "running"
    /\ \E i \in 1..Len(inflight) : \E msg \in TagsCreateResults(inflight[i]) :
       \E tag \in TagAfter(msg) :
          StepEnv(tagsCreateModelUpdateMsg(m, msg), MsgEvent(msg), RemoveAt(inflight, i),
                  repoBranch, tag)

\* main(): p.Run() has returned without a terminal error
MainExit ==
    /\ pc = "quit"
    /\ flow \in {"save", "branch", "replay", "sync"}
    /\ pc' = "exited"
    /\ exitCode' = 0
    /\ UNCHANGED <<flow, srcVersion, m, inflight, lastEvent, lastCmd, lastCalls, repoBranch,
                   localTag>>

InitSave ==
    /\ flow = "save"
    /\ srcVersion \in SaveVersions
    /\ \E customMessage \in CustomMessages : m = initialModelWithMessage(customMessage)
    /\ inflight = modelInit(m)

InitBranch ==
    /\ flow = "branch"
    /\ srcVersion = "part_001"
    /\ \E args \in BranchArgs : m = initialBranchModel(args[1], args[2])
    /\ inflight = branchModelInit

InitReplay ==
    /\ flow = "replay"
    /\ srcVersion = "part_001"
    /\ \E ontoBranch \in OntoBranches : m = initialReplayModel(ontoBranch, FALSE)
    /\ inflight = replayModelInit

InitSync ==
    /\ flow = "sync"
    /\ srcVersion = "model.go"
    /\ \E pullOnly \in BOOLEAN : m = initialSyncModel(pullOnly)
    /\ inflight = syncModelInit

InitStack ==
    /\ flow = "stack"
    /\ srcVersion = "part_001"
    /\ m = initialStackModel
    /\ inflight = stackModelInit

InitTags ==
    /\ flow = "tags"
    /\ srcVersion = "part_001"
    /\ m = initialTagsModel
    /\ inflight = tagsModelInit

InitTagsDiff ==
    /\ flow = "tagsDiff"
    /\ srcVersion = "part_001"
    /\ m = initialTagsDiffModel
    /\ inflight = tagsDiffModelInit

InitTagsCreate ==
    /\ flow = "tagsCreate"
    /\ srcVersion = "part_001"
    /\ \E tagName \in NewTags : m = initialTagsCreateModel(tagName)
    /\ inflight = tagsCreateModelInit

Init ==
    /\ \/ InitSave
       \/ InitBranch
       \/ InitReplay
       \/ InitSync
       \/ InitStack
       \/ InitTags
       \/ InitTagsDiff
       \/ InitTagsCreate
    /\ pc = "running"
    /\ exitCode = -1
    /\ lastEvent = InitEvent
    /\ lastCmd = inflight
    /\ lastCalls = <<>>
    /\ repoBranch \in BranchNames
    /\ flow # "replay" => repoBranch = <<"d">>
    /\ localTag = FALSE

Next ==
    \/ SaveKey
    \/ SaveComplete
    \/ BranchKey
    \/ BranchComplete
    \/ ReplayKey
    \/ ReplayComplete
    \/ SyncKey
    \/ SyncComplete
    \/ StackKey
    \/ StackComplete
    \/ TagsKey
    \/ TagsComplete
    \/ TagsDiffKey
    \/ TagsDiffComplete
    \/ TagsCreateKey
    \/ TagsCreateComplete
    \/ MainExit

Spec == Init /\ [][Next]_vars

\* the flows with a confirmation step, with every scheduled effect
\* eventually delivering its completion message
LiveInit == Init /\ flow \in {"save", "replay", "tagsCreate"}

LiveNext ==
    \/ SaveKey
    \/ SaveComplete
    \/ ReplayKey
    \/ ReplayComplete
    \/ TagsCreateKey
    \/ TagsCreateComplete
    \/ MainExit

LiveSpec ==
    /\ LiveInit /\ [][LiveNext]_vars
    /\ WF_vars(SaveComplete) /\ WF_vars(ReplayComplete) /\ WF_vars(TagsCreateComplete)

----------------------------------------------------------------------------
(* Properties *)

Terminal(state) == state \in {"Done", "Error", "Conflict"}

QuitKeys == {"ctrl+c", "q"}
DeclineKeys == {"n", "N", "ctrl+c", "q"}

ConfirmStep ==
    \/ flow = "save" /\ m.state = "Confirming"
    \/ flow = "replay" /\ m.state \in {"ShowingCommits", "Confirming"}
    \/ flow = "tagsCreate" /\ m.state = "Preview"

LastMsgIs(kind) == lastEvent.type = "msg" /\ lastEvent.msg.kind = kind

\* C1: in every flow at most one external effect is in flight at any time.
C1_AtMostOneInFlight == Len(inflight) <= 1

\* C2: a decline key in a confirmation step (save Confirming, replay
\* ShowingCommits/Confirming, tag-create Preview) gives a terminal state with
\* the error set and schedules no effect.
C2_DeclineIsTerminalWithError ==
    [][(ConfirmStep /\ pc = "running" /\ lastEvent'.type = "key"
            /\ lastEvent'.key \in DeclineKeys /\ pc' # "running")
        => (Terminal(m'.state) /\ m'.err # nil /\ lastCmd' = NoCmd)]_vars

\* C3: in the save flow 'y' or 'Y' in Confirming moves to Committing and
\* schedules exactly one effect, the commit of the current commitMessage;
\* no other field of the session changes.
C3_AcceptCommitsCurrentMessage ==
    [][(flow = "save" /\ m.state = "Confirming" /\ pc = "running"
            /\ lastEvent'.type = "key" /\ lastEvent'.key \in {"y", "Y"})
        => (/\ m' = [m EXCEPT !.state = "Committing"]
            /\ lastCmd' = Cmd("commitChanges", m.commitMessage)
            /\ inflight' = inflight \o lastCmd'
            /\ pc' = "running")]_vars

C3_Witness ==
    /\ flow = "save" /\ m.state = "Committing"
    /\ lastEvent.type = "key" /\ lastEvent.key = "Y"
    /\ inflight = Cmd("commitChanges", m.commitMessage)
    /\ m.commitMessage # <<>>

\* C4: in the save flow 'e' keeps the message M of Confirming in the restore
\* slot, no editing key changes M or the restore slot or schedules an effect,
\* and cancel-edit (ctrl+c or q) returns to Confirming with commitMessage = M
\* and no effect, in every round.
C4_CancelEditRestores ==
    /\ [](flow = "save" /\ m.state = "Editing" => m.originalMsg = m.commitMessage)
    /\ [][(flow = "save" /\ pc = "running" /\ lastEvent'.type = "key")
          => /\ (m.state = "Confirming" /\ m'.state = "Editing")
                    => (m'.commitMessage = m.commitMessage /\ lastCmd' = NoCmd)
             /\ (m.state = "Editing" /\ lastEvent'.key # "enter")
                    => (/\ m'.commitMessage = m.commitMessage
                        /\ m'.originalMsg = m.originalMsg
                        /\ lastCmd' = NoCmd /\ inflight' = inflight)
             /\ (m.state = "Editing" /\ lastEvent'.key \in QuitKeys)
                    => (m'.state = "Confirming" /\ m'.commitMessage = m.originalMsg
                        /\ pc' = "running")]_vars

\* a second round of editing was cancelled after the text was changed
C4_Witness ==
    /\ flow = "save" /\ m.state = "Confirming"
    /\ lastEvent.type = "key" /\ lastEvent.key = "q"
    /\ m.originalMsg = m.commitMessage
    /\ m.textInput # m.commitMessage
    /\ m.commitMessage # <<>>

\* C5: in the save flow a diff-fetch that completes without error with an
\* empty or whitespace-only diff ends in Error 'no changes to commit'; no
\* generation or commit effect is scheduled, with or without a custom message.
C5_EmptyDiffIsError ==
    (flow = "save" /\ LastMsgIs("getDiffMsg") /\ lastEvent.msg.err = nil
        /\ TrimSpace(lastEvent.msg.diff) = <<>>)
    => (/\ m.state = "Error" /\ m.err = "no changes to commit"
        /\ lastCmd = NoCmd /\ inflight = <<>>
        /\ pc \in {"quit", "exited"})

C5_Witness ==
    /\ flow = "save" /\ LastMsgIs("getDiffMsg") /\ lastEvent.msg.err = nil
    /\ lastEvent.msg.diff = <<" ">>
    /\ m.useCustomMsg /\ m.state = "Error"

\* C6: in the save flow a generation result that is empty or whitespace only
\* ends in Error and never reaches Confirming.
C6_BlankGenerationIsError ==
    (flow = "save" /\ LastMsgIs("generateMsgMsg") /\ lastEvent.msg.err = nil
        /\ TrimSpace(lastEvent.msg.message) = <<>>)
    => (m.state = "Error" /\ m.err # nil)

C8_QuitHonoredEverywhere ==
    [][(pc = "running" /\ ~Terminal(m.state) /\ lastEvent'.type = "key"
            /\ lastEvent'.key \in QuitKeys)
        => pc' = "quit"]_vars

\* C9: the process exits with status 0 if the error is unset and with a
\* nonzero status if it is set.
C9_ExitStatusReflectsError ==
    pc = "exited" => (exitCode = 0 <=> m.err = nil)

\* C10: in the stack and tags flows the filtered list is always the
\* subsequence of the master list whose fields contain the lower-cased query.
C10_FilteredIsMatchingSubsequence ==
    /\ flow = "stack" =>
          m.filteredCommits =
              SelectSeq(m.commits, LAMBDA c : commitMatches(c, ToLower(m.filterQuery)))
    /\ flow = "tags" =>
          m.filteredTags =
              SelectSeq(m.tags, LAMBDA t : tagMatches(t, ToLower(m.filterQuery)))

\* the list a browsing flow shows
Displayed ==
    CASE flow = "stack" -> stackModelGetDisplayCommits(m)
      [] flow = "tags" -> tagsModelGetDisplayTags(m)
      [] flow = "tagsDiff" -> m.commits

\* C11: in the stack, tags and tag-diff flows the cursor is always within
\* [0, len(displayed)-1], or 0 when the displayed list is empty.
C11_CursorInRange ==
    flow \in {"stack", "tags", "tagsDiff"} =>
        IF Displayed = <<>> THEN m.cursor = 0
        ELSE m.cursor >= 0 /\ m.cursor <= Len(Displayed) - 1

\* a is b with some elements left out, in the same order
RECURSIVE IsSubsequence(_, _)
IsSubsequence(a, b) ==
    IF a = <<>> THEN TRUE
    ELSE IF b = <<>> THEN FALSE
    ELSE IF Head(a) = Head(b) THEN IsSubsequence(Tail(a), Tail(b))
    ELSE IsSubsequence(a, Tail(b))

\* C12: in the stack and tags flows the filtered list is always a subsequence
\* of the master list, and every step that changes the filtered list (a key
\* typed in filter mode or any other mutation) sets the cursor to 0.
C12_FilterChangeResetsCursor ==
    /\ [](flow = "stack" => IsSubsequence(m.filteredCommits, m.commits))
    /\ [](flow = "tags" => IsSubsequence(m.filteredTags, m.tags))
    /\ [][/\ (flow = "stack" /\ m'.filteredCommits # m.filteredCommits) => m'.cursor = 0
          /\ (flow = "tags" /\ m'.filteredTags # m.filteredTags) => m'.cursor = 0]_vars

\* a typed key narrowed the list of three commits to one
C12_Witness ==
    /\ flow = "stack" /\ m.state = "List" /\ m.filterMode
    /\ lastEvent.type = "key" /\ lastEvent.key \in TypedRunes
    /\ m.filterQuery = <<"d", "d">>
    /\ Len(m.commits) = 3 /\ m.filteredCommits = <<c1>>
    /\ m.cursor = 0

\* C13: in the stack and tags flows 'c' in the list state sets the query to
\* empty, the filtered list to the master list and the cursor to 0, and
\* pressing it again changes nothing.
C13_ClearFilterIdempotent ==
    [][(flow \in {"stack", "tags"} /\ pc = "running" /\ m.state = "List"
            /\ ~m.filterMode /\ lastEvent'.type = "key" /\ lastEvent'.key = "c")
        => (/\ m'.filterQuery = <<>> /\ m'.cursor = 0
            /\ flow = "stack" =>
                  (m'.filteredCommits = m'.commits /\ m'.commits = m.commits
                   /\ stackModelUpdateKey(m', "c") = Result(m', NoCmd, FALSE))
            /\ flow = "tags" =>
                  (m'.filteredTags = m'.tags /\ m'.tags = m.tags
                   /\ tagsModelUpdateKey(m', "c") = Result(m', NoCmd, FALSE))
            /\ lastCmd' = NoCmd /\ pc' = "running")]_vars

C13_Witness ==
    /\ flow = "tags" /\ m.state = "List" /\ ~m.filterMode
    /\ lastEvent.type = "key" /\ lastEvent.key = "c"
    /\ m.filterQuery = <<>> /\ m.filteredTags = m.tags /\ m.cursor = 0
    /\ Len(m.tags) = 3

\* C14: the transition function of every flow performs no external
\* operation itself; external operations run only as scheduled effects.
C14_UpdateRunsNoExternalOperation == lastCalls = <<>>

\* C15: in every flow the error is set only if the state is Error or Done.
C15_ErrOnlyInErrorOrDone ==
    ("err" \in DOMAIN m /\ m.err # nil) => m.state \in {"Error", "Done"}

\* a declined replay ends in Done with the cancellation as its error
C15_Witness ==
    /\ flow = "replay" /\ m.state = "Done" /\ m.err = "replay cancelled"
    /\ lastEvent.type = "key" /\ lastEvent.key \in DeclineKeys

\* C16: in every flow, while an effect is in flight, a key press neither
\* changes the session nor schedules an effect.
C16_KeysInertWhileInFlight ==
    [][(pc = "running" /\ inflight # <<>> /\ lastEvent'.type = "key")
        => (m' = m /\ lastCmd' = NoCmd)]_vars

\* a text of spaces only, or no text at all
Blank(text) == \A i \in 1..Len(text) : text[i] = " "

\* C17: in the save flow 'enter' in Editing with a blank edited value moves
\* to Error with 'commit message cannot be empty' and schedules no commit;
\* with a non-blank value it moves to Committing and schedules exactly one
\* effect, the commit of the edited value.
C17_EditEnterValidates ==
    [][(flow = "save" /\ pc = "running" /\ m.state = "Editing"
            /\ lastEvent'.type = "key" /\ lastEvent'.key = "enter")
        => IF Blank(m.textInput)
           THEN /\ m'.state = "Error"
                /\ m'.err = "commit message cannot be empty"
                /\ lastCmd' = NoCmd /\ inflight' = inflight
           ELSE /\ m'.state = "Committing" /\ m'.err = nil
                /\ lastCmd' = Cmd("commitChanges", m.textInput)
                /\ inflight' = inflight \o Cmd("commitChanges", m.textInput)]_vars

\* the message was edited down to one space and submitted
C17_Witness ==
    /\ flow = "save" /\ m.state = "Error" /\ m.textInput = <<" ">>
    /\ m.err = "commit message cannot be empty"
    /\ lastEvent.type = "key" /\ lastEvent.key = "enter"
    /\ \A i \in 1..Len(inflight) : inflight[i].kind # "commitChanges"

\* the flow's Update has no case for key k in the current state
UnhandledKey(k) ==
    CASE flow = "save" ->
            /\ m.state # "Editing" /\ k \notin QuitKeys
            /\ m.state = "Confirming" => k \notin {"y", "Y", "n", "N", "e", "E"}
      [] flow = "branch" -> ~(m.state = "Creating" /\ m.mode = "new") /\ m.state # "List"
      [] flow = "replay" ->
            /\ m.state = "ShowingCommits" => k \notin DeclineKeys \cup {"y", "Y", "enter"}
            /\ m.state = "Confirming" => k \notin DeclineKeys \cup {"y", "Y"}
      [] flow = "sync" -> k \notin QuitKeys
      [] flow \in {"stack", "tags", "tagsDiff"} -> m.state # "List"
      [] flow = "tagsCreate" -> m.state # "Preview"

\* C18: a key that the flow does not handle in the current state (save:
\* 'y', 'n', 'e' outside Confirming and Editing; replay, stack, tags and
\* tag-create: any key outside the handling state) leaves the session
\* unchanged, schedules nothing and does not end the loop.
C18_UnhandledKeyChangesNothing ==
    [][(pc = "running" /\ lastEvent'.type = "key" /\ UnhandledKey(lastEvent'.key))
        => (m' = m /\ lastCmd' = NoCmd /\ inflight' = inflight /\ pc' = "running")]_vars

\* 'y' pressed while the message is still being generated
C18_Witness ==
    /\ flow = "save" /\ m.state = "Generating" /\ pc = "running"
    /\ lastEvent.type = "key" /\ lastEvent.key = "y"
    /\ lastCmd = NoCmd /\ Len(inflight) = 1 /\ inflight[1].kind = "generateMessage"

\* C19: an effect completion that carries an error moves the session to
\* Error with the error set, or to Conflict for a conflicting replay, ends
\* the loop and schedules no effect.
C19_FailedEffectIsTerminal ==
    (lastEvent.type = "msg" /\ "err" \in DOMAIN lastEvent.msg /\ lastEvent.msg.err # nil)
    => /\ m.state \in {"Error", "Conflict"}
       /\ m.state = "Error" => m.err # nil
       /\ lastCmd = NoCmd
       /\ pc \in {"quit", "exited"}

\* the push of a new tag failed
C19_Witness ==
    /\ flow = "tagsCreate" /\ LastMsgIs("pushTagMsg") /\ lastEvent.msg.err # nil
    /\ m.state = "Error" /\ m.err = "failed to push tag" /\ pc = "quit"

C21_NeverDeletesCurrentBranch ==
    /\ [][(flow = "branch" /\ pc = "running" /\ m.state = "List"
              /\ lastEvent'.type = "key" /\ lastEvent'.key = "d"
              /\ m.cursor < Len(m.branches) /\ m.branches[m.cursor + 1].Current)
          => (/\ m'.state = "Error" /\ m'.err = "cannot delete current branch"
              /\ lastCmd' = NoCmd /\ inflight' = inflight)]_vars
    /\ [](flow = "branch" /\ pc = "running" /\ m.mode # "delete"
            => \A i \in 1..Len(inflight) :
                  inflight[i].kind = "deleteBranchCmd" => inflight[i].arg # repoBranch)
    /\ [](flow = "branch" /\ m.mode = "delete" /\ m.branchName = repoBranch
            => /\ m.state # "Done"
               /\ LastMsgIs("deleteBranchMsg") => (m.state = "Error" /\ m.err # nil))

\* 'd' was pressed on the checked-out branch of the loaded list
C21_Witness ==
    /\ flow = "branch" /\ m.state = "Error" /\ m.err = "cannot delete current branch"
    /\ lastEvent.type = "key" /\ lastEvent.key = "d"
    /\ m.branches[m.cursor + 1].Name = repoBranch

\* effect kind is among the effects the sequence cmds holds
Schedules(cmds, kind) == \E i \in 1..Len(cmds) : cmds[i].kind = kind

\* C22: in the replay flow the rebase effect is scheduled only by 'y', 'Y'
\* or 'enter' pressed in ShowingCommits/Confirming, and that state is
\* reached only after the rebase check passed (the current branch was
\* recorded and differs from the target) and a non-empty list of commits
\* was obtained.
C22_ReplayOnlyAfterConfirmation ==
    /\ [][(flow = "replay" /\ pc = "running" /\ Schedules(lastCmd', "replayCommits"))
          => (/\ lastEvent'.type = "key" /\ lastEvent'.key \in {"y", "Y", "enter"}
              /\ m.state \in {"ShowingCommits", "Confirming"}
              /\ lastCmd' = Cmd("replayCommits", m.ontoBranch))]_vars
    /\ [](flow = "replay" /\ m.state \in {"ShowingCommits", "Confirming"}
            => (/\ m.commits # <<>>
                /\ m.currentBranch # <<>> /\ m.currentBranch # m.ontoBranch))
    /\ [](flow = "replay" /\ Schedules(inflight, "replayCommits")
            => (m.commits # <<>> /\ m.currentBranch # <<>>))

\* the shown commits were accepted with 'enter'
C22_Witness ==
    /\ flow = "replay" /\ m.state = "Replaying"
    /\ lastEvent.type = "key" /\ lastEvent.key = "enter"
    /\ inflight = Cmd("replayCommits", m.ontoBranch)
    /\ Len(m.commits) = 3

\* C23: in the replay flow a rebase already in progress, a current branch
\* equal to the target and an empty list of commits each end the flow in
\* Error with their own cause; the loop ends, so the confirmation step is
\* never shown, and no rebase effect is scheduled.
C23_PreconditionFailureIsError ==
    /\ [][(flow = "replay" /\ pc = "running" /\ lastEvent'.type = "msg"
              /\ lastEvent'.msg.kind = "checkRebaseMsg" /\ lastEvent'.msg.err = nil)
          => (/\ lastEvent'.msg.inProgress
                    => (m'.state = "Error" /\ m'.err = "rebase already in progress")
              /\ (~lastEvent'.msg.inProgress /\ repoBranch = m.ontoBranch)
                    => (/\ m'.state = "Error"
                        /\ m'.err \in {"already on branch, nothing to replay", ErrEffect})
              /\ m'.state = "Error"
                    => (lastCmd' = NoCmd /\ pc' = "quit" /\ inflight' = <<>>))]_vars
    /\ [][(flow = "replay" /\ pc = "running" /\ lastEvent'.type = "msg"
              /\ lastEvent'.msg.kind = "getReplayCommitsMsg" /\ lastEvent'.msg.err = nil
              /\ lastEvent'.msg.commits = <<>>)
          => (/\ m'.state = "Error" /\ m'.err = "no commits to replay"
              /\ lastCmd' = NoCmd /\ pc' = "quit" /\ inflight' = <<>>)]_vars

\* the target branch already held every commit of the current branch
C23_Witness ==
    /\ flow = "replay" /\ m.state = "Error" /\ m.err = "no commits to replay"
    /\ LastMsgIs("getReplayCommitsMsg") /\ pc = "quit" /\ inflight = <<>>
    /\ m.currentBranch = repoBranch

\* C24: in the sync flow a repository check that reports no remote or
\* uncommitted changes ends the flow in Error with 'no remote repository
\* configured' or 'you have uncommitted changes ...', and neither the pull
\* nor the push effect is scheduled.
C24_SyncCheckFailureIsError ==
    (flow = "sync" /\ LastMsgIs("syncCheckMsg") /\ lastEvent.msg.err = nil
        /\ (~lastEvent.msg.hasRemote \/ lastEvent.msg.hasChanges))
    => /\ m.state = "Error"
       /\ m.err = IF ~lastEvent.msg.hasRemote
                  THEN "no remote repository configured"
                  ELSE "you have uncommitted changes - run 'snap save' first"
       /\ lastCmd = NoCmd /\ inflight = <<>>
       /\ pc \in {"quit", "exited"}

\* the repository has a remote and uncommitted changes
C24_Witness ==
    /\ flow = "sync" /\ LastMsgIs("syncCheckMsg")
    /\ lastEvent.msg.hasRemote /\ lastEvent.msg.hasChanges
    /\ m.state = "Error" /\ inflight = <<>>

\* C25: in the sync flow the push effect is scheduled only by a pull that
\* completed without error while pull-only is not set; with pull-only set
\* no push effect is ever in flight and a successful pull ends in Done.
C25_PushOnlyAfterPull ==
    /\ [][(flow = "sync" /\ pc = "running" /\ Schedules(lastCmd', "pushChanges"))
          => (/\ lastEvent'.type = "msg" /\ lastEvent'.msg.kind = "syncPullMsg"
              /\ lastEvent'.msg.err = nil /\ ~m.pullOnly /\ m.state = "Pulling")]_vars
    /\ [][flow = "sync" => m'.pullOnly = m.pullOnly]_vars
    /\ [](flow = "sync" /\ m.pullOnly
            => (/\ ~Schedules(inflight, "pushChanges") /\ m.state # "Pushing"
                /\ (LastMsgIs("syncPullMsg") /\ lastEvent.msg.err = nil)
                      => (m.state = "Done" /\ pc \in {"quit", "exited"})))

\* a pull-only sync finished after its pull
C25_Witness ==
    /\ flow = "sync" /\ m.pullOnly /\ m.state = "Done"
    /\ LastMsgIs("syncPullMsg") /\ lastEvent.msg.err = nil
    /\ inflight = <<>>

\* C26: in the sync flow a pull that fails with the word CONFLICT in its
\* output ends in Error with the merge-conflict cause, not the raw pull
\* error, and schedules no push.
C26_PullConflictIsReported ==
    (flow = "sync" /\ LastMsgIs("syncPullMsg") /\ lastEvent.msg.err # nil
        /\ \E i \in 1..Len(lastEvent.msg.output) : lastEvent.msg.output[i] = "CONFLICT")
    => /\ m.state = "Error"
       /\ m.err = "merge conflict detected" /\ m.err # lastEvent.msg.err
       /\ lastCmd = NoCmd /\ ~Schedules(inflight, "pushChanges")
       /\ pc \in {"quit", "exited"}

\* the pull stopped on a content conflict
C26_Witness ==
    /\ flow = "sync" /\ LastMsgIs("syncPullMsg") /\ lastEvent.msg.err = ErrEffect
    /\ lastEvent.msg.output = <<"CONFLICT", "(content)">>
    /\ m.state = "Error" /\ m.err = "merge conflict detected"
    /\ m.pullOutput = lastEvent.msg.output

\* C27: in the save flow a non-empty custom message c makes the session
\* start in Staging with the stage effect; the Ollama check and the
\* generation effect are never scheduled; a diff that is not blank leads
\* from GettingDiff straight to Confirming with no effect; the message held
\* there is c, and accepting it there commits c.
C27_CustomMessageSkipsGeneration ==
    /\ \A c \in CustomMessages \ {<<>>} :
          (flow = "save" /\ m = initialModelWithMessage(c))
          => /\ m.state = "Staging" /\ inflight = Cmd("stageChanges", <<>>)
             /\ [](/\ ~Schedules(inflight, "checkOllama")
                   /\ ~Schedules(inflight, "generateMessage")
                   /\ m.state \notin {"Checking", "Generating"}
                   /\ m.state \in {"Staging", "GettingDiff"} => m.commitMessage = c
                   /\ (m.state = "Confirming" /\ LastMsgIs("getDiffMsg"))
                         => (m.commitMessage = c /\ inflight = <<>>))
    /\ [][(flow = "save" /\ m.useCustomMsg /\ pc = "running" /\ m.state = "GettingDiff"
              /\ lastEvent'.type = "msg" /\ lastEvent'.msg.kind = "getDiffMsg"
              /\ lastEvent'.msg.err = nil /\ ~Blank(lastEvent'.msg.diff))
          => (/\ m'.state = "Confirming" /\ m'.commitMessage = m.commitMessage
              /\ lastCmd' = NoCmd)]_vars
    /\ [][(flow = "save" /\ m.useCustomMsg /\ pc = "running" /\ m.state = "Confirming"
              /\ LastMsgIs("getDiffMsg")
              /\ lastEvent'.type = "key" /\ lastEvent'.key \in {"y", "Y"})
          => lastCmd' = Cmd("commitChanges", m.commitMessage)]_vars

\* the custom message is shown for confirmation right after the diff
C27_Witness ==
    /\ flow = "save" /\ m.useCustomMsg /\ m.state = "Confirming"
    /\ LastMsgIs("getDiffMsg") /\ m.commitMessage = <<"d", ":", "y">>
    /\ m.diff = <<"d">> /\ inflight = <<>>

\* C28: in the tag-create flow a failed push makes the transition schedule
\* the deletion of the local tag as an effect; the transition does not run
\* the deletion itself.
C28_TagDeletionIsScheduledEffect ==
    (flow = "tagsCreate" /\ LastMsgIs("pushTagMsg") /\ lastEvent.msg.err # nil)
    => /\ \A i \in 1..Len(lastCalls) : lastCalls[i] # "DeleteTag"
       /\ Len(lastCmd) = 1

\* C29: in the save flow 'e' or 'E' in Confirming copies commitMessage into
\* originalMsg, switches to Editing, leaves commitMessage unchanged and
\* schedules no effect.
C29_EditSnapshotsMessage ==
    [][(flow = "save" /\ pc = "running" /\ m.state = "Confirming"
            /\ lastEvent'.type = "key" /\ lastEvent'.key \in {"e", "E"})
        => (/\ m'.originalMsg = m.commitMessage
            /\ m'.state = "Editing"
            /\ m'.commitMessage = m.commitMessage
            /\ lastCmd' = NoCmd /\ inflight' = inflight /\ lastCalls' = <<>>
            /\ pc' = "running")]_vars

\* the editor was opened with 'E' on a shown message
C29_Witness ==
    /\ flow = "save" /\ m.state = "Editing"
    /\ lastEvent.type = "key" /\ lastEvent.key = "E"
    /\ m.commitMessage # <<>> /\ m.originalMsg = m.commitMessage
    /\ inflight = <<>>

\* the lower-cased field holds the text q somewhere
Occurs(q, field) ==
    \E i \in 1..(Len(field) - Len(q) + 1) :
        \A j \in 1..Len(q) : ToLowerRune(field[i + j - 1]) = q[j]

\* a key other than esc, ctrl+c, q and enter pressed in filter mode
FilterTyped ==
    /\ pc = "running" /\ m.state = "List" /\ m.filterMode
    /\ lastEvent'.type = "key" /\ lastEvent'.key \notin {"esc", "ctrl+c", "q", "enter"}

\* C30: a key typed in filter mode keeps exactly the items in whose
\* lower-cased fields the lower-cased query occurs (history: message, full
\* hash, short hash, author; tags: name, message, short hash), in the order
\* of the master list.
C30_FilterKeepsMatchingItems ==
    /\ [][(flow = "stack" /\ FilterTyped)
          => LET q == ToLower(m'.filterQuery)
                 Keep(c) == \/ Occurs(q, c.Message) \/ Occurs(q, c.Hash)
                            \/ Occurs(q, c.ShortHash) \/ Occurs(q, c.Author)
             IN  m'.filteredCommits = SelectSeq(m'.commits, Keep)]_vars
    /\ [][(flow = "tags" /\ FilterTyped)
          => LET q == ToLower(m'.filterQuery)
                 Keep(t) == \/ Occurs(q, t.Name) \/ Occurs(q, t.Message)
                            \/ Occurs(q, t.ShortHash)
             IN  m'.filteredTags = SelectSeq(m'.tags, Keep)]_vars

\* the query "N" kept the two commits with an n in message or author
C30_Witness ==
    /\ flow = "stack" /\ m.state = "List" /\ m.filterMode
    /\ lastEvent.type = "key" /\ lastEvent.key = "N"
    /\ m.filterQuery = <<"N">>
    /\ m.commits = <<c1, c2, c3>> /\ m.filteredCommits = <<c1, c2>>

\* C31: in the stack flow 'enter' in the list state never reads outside the
\* displayed list: on an empty displayed list nothing happens, otherwise the
\* cursor is within the list and the commit checked out is displayed[cursor].
C31_CheckoutReadsInsideDisplayed ==
    [][(flow = "stack" /\ pc = "running" /\ m.state = "List" /\ ~m.filterMode
            /\ lastEvent'.type = "key" /\ lastEvent'.key = "enter")
        => IF Displayed = <<>>
           THEN m' = m /\ lastCmd' = NoCmd /\ pc' = "running"
           ELSE /\ m.cursor >= 0 /\ m.cursor < Len(Displayed)
                /\ pc' # "panic"
                /\ m'.selectedCommit = Displayed[m.cursor + 1]]_vars

\* C32: in the save flow every scheduled commit effect carries a message
\* that is neither empty nor whitespace only.
C32_CommitMessageNotBlank ==
    flow = "save" =>
        \A i \in 1..Len(inflight) :
            inflight[i].kind = "commitChanges" => ~Blank(inflight[i].arg)

\* C33: in the save flow the commit effect is scheduled only by an accept
\* ('y' in Confirming, 'enter' in Editing) after the stage effect and then
\* the diff effect completed without error, the diff not being blank; it is
\* scheduled at most once.
C33_CommitAfterStageDiffAccept ==
    /\ [][(flow = "save" /\ pc = "running" /\ Schedules(lastCmd', "commitChanges"))
          => (/\ lastEvent'.type = "key"
              /\ \/ m.state = "Confirming" /\ lastEvent'.key \in {"y", "Y"}
                 \/ m.state = "Editing" /\ lastEvent'.key = "enter"
              /\ m.stagedChanges /\ ~Blank(m.diff)
              /\ Len(lastCmd') = 1 /\ ~Schedules(inflight, "commitChanges")
              /\ m'.state = "Committing")]_vars
    /\ [][(flow = "save" /\ pc = "running" /\ Schedules(lastCmd', "getDiff"))
          => (/\ lastEvent'.type = "msg" /\ lastEvent'.msg.kind = "stageChangesMsg"
              /\ lastEvent'.msg.err = nil /\ m'.stagedChanges)]_vars
    /\ [][(flow = "save" /\ pc = "running" /\ m'.diff # m.diff)
          => (/\ lastEvent'.type = "msg" /\ lastEvent'.msg.kind = "getDiffMsg"
              /\ lastEvent'.msg.err = nil /\ m.stagedChanges
              /\ m'.diff = lastEvent'.msg.diff)]_vars
    /\ [][(flow = "save" /\ m.state = "Committing")
          => m'.state \in {"Committing", "Done", "Error"}]_vars
    /\ [](flow = "save" /\ m.state \in {"Confirming", "Editing", "Committing"}
            => (m.stagedChanges /\ ~Blank(m.diff)))

\* an edited message is being committed
C33_Witness ==
    /\ flow = "save" /\ m.state = "Committing"
    /\ lastEvent.type = "key" /\ lastEvent.key = "enter"
    /\ inflight = Cmd("commitChanges", m.commitMessage)
    /\ m.stagedChanges /\ m.diff = <<"d">>

\* the user accepted at a confirmation step and the effect is under way
Accepted ==
    \/ flow = "save" /\ m.state = "Committing"
    \/ flow = "replay" /\ m.state = "Replaying"
    \/ flow = "tagsCreate" /\ m.state \in {"Creating", "Pushing"}

\* C34: once the user has accepted at a confirmation step, the flow reaches
\* Done, Error or Conflict unless a later key press ends the loop first,
\* provided every scheduled effect delivers its completion event.
C34_AcceptedReachesTerminal ==
    (pc = "running" /\ Accepted)
        ~> (Terminal(m.state) \/ (pc # "running" /\ lastEvent.type = "key"))

\* the tag was created and pushed after the preview was accepted
C34_Witness ==
    /\ flow = "tagsCreate" /\ m.state = "Done" /\ pc = "quit"
    /\ LastMsgIs("pushTagMsg") /\ inflight = <<>> /\ localTag

\* C35: in the tag-create flow the push is scheduled only by a create-tag
\* completion without error, Done is entered only by a push completion
\* without error, and after a push failure the state is Error and the local
\* tag no longer exists.
C35_PushFailureRemovesTag ==
    /\ [][(flow = "tagsCreate" /\ pc = "running" /\ Schedules(lastCmd', "pushTagCmd"))
          => (/\ lastEvent'.type = "msg" /\ lastEvent'.msg.kind = "createTagMsg"
              /\ lastEvent'.msg.err = nil /\ localTag')]_vars
    /\ [][(flow = "tagsCreate" /\ m.state # "Done" /\ m'.state = "Done")
          => (/\ lastEvent'.type = "msg" /\ lastEvent'.msg.kind = "pushTagMsg"
              /\ lastEvent'.msg.err = nil /\ m.state = "Pushing" /\ localTag)]_vars
    /\ []((flow = "tagsCreate" /\ LastMsgIs("pushTagMsg") /\ lastEvent.msg.err # nil)
            => (m.state = "Error" /\ ~localTag))

\* C36: in the save flow without a custom message an Ollama check that
\* reports the service not running ends in Error and the loop ends with no
\* effect in flight; until the check has reported the service running, no
\* stage, diff, generate or commit effect is scheduled.
C36_OllamaDownTouchesNothing ==
    /\ (flow = "save" /\ LastMsgIs("checkOllamaMsg") /\ ~lastEvent.msg.running)
       => /\ m.state = "Error" /\ m.err # nil
          /\ lastCmd = NoCmd /\ inflight = <<>>
          /\ pc \in {"quit", "exited"}
          /\ ~m.stagedChanges
    /\ (flow = "save" /\ ~m.useCustomMsg /\ ~m.ollamaRunning)
       => /\ \A i \in 1..Len(inflight) : inflight[i].kind = "checkOllama"
          /\ m.state \in {"Checking", "Error"}

\* Ollama was found not running
C36_Witness ==
    /\ flow = "save" /\ ~m.useCustomMsg
    /\ LastMsgIs("checkOllamaMsg") /\ ~lastEvent.msg.running
    /\ m.state = "Error" /\ pc = "quit" /\ inflight = <<>>

\* C37: in the save flow's Editing state every key other than enter, ctrl+c
\* and q changes at most the text-input buffer: the state stays Editing,
\* commitMessage and originalMsg are unchanged and no effect is scheduled.
C37_EditingKeysChangeOnlyBuffer ==
    [][(flow = "save" /\ pc = "running" /\ m.state = "Editing"
            /\ lastEvent'.type = "key" /\ lastEvent'.key \notin {"enter", "ctrl+c", "q"})
        => (/\ m' = [m EXCEPT !.textInput = m'.textInput]
            /\ m'.state = "Editing"
            /\ m'.commitMessage = m.commitMessage /\ m'.originalMsg = m.originalMsg
            /\ lastCmd' = NoCmd /\ inflight' = inflight /\ pc' = "running")]_vars

\* an 'N' was typed into the editor
C37_Witness ==
    /\ flow = "save" /\ m.state = "Editing"
    /\ lastEvent.type = "key" /\ lastEvent.key = "N"
    /\ m.textInput = <<"d", "N">> /\ m.commitMessage = <<"d">>
    /\ m.originalMsg = <<"d">>

\* C38: in the stack and tags flows esc, ctrl+c or q in filter mode gives
\* the session that 'c' gives outside filter mode (empty query, filtered
\* list equal to the master list, cursor 0) and does not end the loop;
\* enter in filter mode only leaves filter mode.
C38_CancelFilterEqualsClear ==
    /\ [][(flow \in {"stack", "tags"} /\ pc = "running" /\ m.state = "List"
              /\ m.filterMode /\ lastEvent'.type = "key"
              /\ lastEvent'.key \in {"esc", "ctrl+c", "q"})
          => (/\ flow = "stack" =>
                    (/\ m' = stackModelUpdateKeyNav([m EXCEPT !.filterMode = FALSE], "c").m
                     /\ m'.filteredCommits = m.commits)
              /\ flow = "tags" =>
                    (/\ m' = tagsModelUpdateKeyNav([m EXCEPT !.filterMode = FALSE], "c").m
                     /\ m'.filteredTags = m.tags)
              /\ ~m'.filterMode /\ m'.filterQuery = <<>> /\ m'.cursor = 0
              /\ lastCmd' = NoCmd /\ pc' = "running")]_vars
    /\ [][(flow \in {"stack", "tags"} /\ pc = "running" /\ m.state = "List"
              /\ m.filterMode /\ lastEvent'.type = "key" /\ lastEvent'.key = "enter")
          => (/\ m' = [m EXCEPT !.filterMode = FALSE]
              /\ lastCmd' = NoCmd /\ pc' = "running")]_vars

\* a filter on the tag list was cancelled with esc
C38_Witness ==
    /\ flow = "tags" /\ m.state = "List" /\ ~m.filterMode
    /\ lastEvent.type = "key" /\ lastEvent.key = "esc"
    /\ m.filterQuery = <<>> /\ m.filteredTags = m.tags /\ m.cursor = 0
    /\ Len(m.tags) = 3

====
